---- MODULE Spec2Model ----
(***************************************************************************)
(* LibreSpeed integration: the test-orchestration coordinator              *)
(* (custom_components/librespeed/coordinator.py) driving a measurement     *)
(* engine (librespeed_client.py, librespeed_cli.py) under the one global   *)
(* asyncio.Lock created in __init__.py.                                    *)
(*                                                                         *)
(* A request is one call of _async_update_data running as an asyncio task. *)
(* A step of the model is what one task does between two suspension points *)
(* (await of the lock, of the engine, of the backoff sleep, of the store). *)
(***************************************************************************)
EXTENDS Integers, Sequences, FiniteSets, TLC

\* ------------------------------------------------------------------ bounds
NumCoordinators == 2
NumTasks == 2
MaxSuccesses == 1
MaxRequests == 3
MaxEntries == 2
MaxId == 2
MaxLatency == 2
LongList == 7
MaxChunks == 2
MaxCompleted == 4
MaxPhases == 2

\* ------------------------------------------------------- program constants
CIRCUIT_BREAKER_WARNING_THRESHOLD == 5
CIRCUIT_BREAKER_OPEN_THRESHOLD == 10
GLOBAL_TEST_LOCK_TIMEOUT == 300
MAX_RETRIES == 3
RETRY_DELAY_BASE == 5
MAX_LIFETIME_GB == 1000000
BYTES_PER_GB == 1000000000
PING_COUNT == 10
MAX_CONCURRENT_DOWNLOADS == 6
MAX_CONCURRENT_UPLOADS == 3
CONCURRENCY == 6
HTTP_OK == 200
DEFAULT_CHUNKS == 100
RUST_BACKEND_THRESHOLD == 5000000
DOWNLOAD_CHUNK_PARAM == 20
PHP_BACKEND_THRESHOLD == 2

Min(a, b) == IF a <= b THEN a ELSE b

\* The two throughput phases and the worker streams each of them starts
\* (concurrent_requests = min(3, MAX_CONCURRENT_...) in both).
Kinds == {"download", "upload"}
NumStreams == Min(3, Min(MAX_CONCURRENT_DOWNLOADS, MAX_CONCURRENT_UPLOADS))
Streams == 1..NumStreams

\* float('inf') of the latency probes: above every finite latency.
INF == MaxLatency + 1

\* What a GET of a ping endpoint can meet: a response with a status after
\* rtt ms, the expiry of PING_TIMEOUT, or an aiohttp.ClientError.
Statuses == {HTTP_OK, 204, 404}
ProbeOutcomes ==
    [kind : {"status"}, status : Statuses, rtt : 1..MaxLatency]
    \cup [kind : {"timeout", "client_error"}, status : {0}, rtt : {0}]
NoProbe == [kind |-> "none", status |-> 0, rtt |-> 0]

Coordinators == 1..NumCoordinators
Tasks == 1..NumTasks

VARIABLES
    locked,                 \* asyncio.Lock._locked of hass.data[DOMAIN]["test_lock"]
    waiters,                \* asyncio.Lock._waiters: tasks queued in acquire(), FIFO
    woken,                  \* the queued task whose future was resolved by release(), or 0
    client,                 \* per coordinator: the engine object it was constructed with
    loaded,                 \* per coordinator: _async_load_lifetime_data has run (setup)
    is_running,
    is_waiting,
    test_lock,              \* per coordinator: self._test_lock is held
    consecutive_failures,   \* self._consecutive_failures
    lifetime_download,      \* GB
    lifetime_upload,        \* GB
    data,                   \* DataUpdateCoordinator.data: last result handed to the entities
    store,                  \* the persisted record of self._store
    req,                    \* per task: the request it is executing
    streak,                 \* history: runs of coordinator Observed ended in failure in a row
    successes,              \* history: engine results produced so far (bounds the lifetime growth)
    issued,                 \* history: requests issued so far (bounds the behaviours of Spec)
    alert,                  \* output: the repair issue the last step created, or "none"
    issues,                 \* the issue registry of the domain: per issue id, the coordinators
                            \* that created it since it was last deleted (none: not active)
    flow_result,            \* output: how the last repair flow or device action ended
    \* one attempt of LibreSpeedClient.run_speed_test (the timed part)
    phase,                  \* "idle", "latency", "download", "upload" or "ended"
    at,                     \* the await the attempt's task is suspended in
    pings,                  \* latency probes completed (the loop index of the ping loop)
    ping_inflight,          \* the HTTP request of _test_latency is in flight
    created,                \* per throughput phase: worker tasks created so far
    active_tasks,           \* per throughput phase and stream: state of the worker task
    cancel_sent,            \* worker tasks with task.cancel() called and not yet delivered
    clock,                  \* per throughput phase: start_time + test_duration has passed
    timer,                  \* the async_timeout scope around the three phases
    outcome,                \* how run_speed_test ended: "none", "result", "NetworkError"
    expired_in,             \* history: the phase the timer expired in, or "none"
    total_bytes,            \* per throughput phase: chunks counted into total_bytes
    reported,               \* per throughput phase: the (speed, total_bytes) it returned
    last_chunk,             \* per worker: how the chunk request it made last ended
    nreq,                   \* per worker: parity of the chunk requests it has issued
    held,                   \* per throughput phase: slots of its semaphore that are taken
    \* the server directory of LibreSpeedClient
    body,                   \* input: what the fetch of the server list yields
    servers,                \* self.servers
    dir_result,             \* how get_servers ended: "none", "returned" or the exception
    batch,                  \* get_best_server: the index i of the batch loop
    probed,                 \* history: latency measured for each server probed so far
    best_server,            \* position in servers of best_server, 0 for None
    best_latency,
    selected,               \* position in servers get_best_server returned, 0 before
    probing,               \* positions of the servers whose _test_latency is in flight
    results,                \* the batch being gathered: latency per task, 0 while it runs
    \* the values of the ping loop of run_speed_test
    probe,                  \* input: what the last latency probe met
    samples,                \* history: what _test_latency returned, probe by probe
    ping_results,           \* the local list ping_results
    result,                 \* result['ping'], result['jitter'], in hundredths of a ms
    \* LibreSpeedClient._create_custom_server
    custom_url,             \* input: the configured URL and what its two test endpoints do
    custom_server,          \* the descriptor built, or the exception raised
    \* the backend flavor adaptation of _test_download.do_download
    detected_backend_type,  \* self._detected_backend_type, "unset" while the attribute is absent
    downloads_completed,    \* the phase's counter of chunks that brought bytes
    chunk_param,            \* per worker: ckSize of its request in flight, 0 when none
    phases_run              \* history: calls of _test_download on this client object

lockVars == <<locked, waiters, woken>>
coordVars == <<client, loaded, is_running, is_waiting, test_lock, consecutive_failures,
               lifetime_download, lifetime_upload, data, store>>
histVars == <<streak, successes, issued>>
throughputVars == <<total_bytes, reported, last_chunk, nreq, held>>
attemptVars == <<phase, at, pings, ping_inflight, created, active_tasks, cancel_sent,
                 clock, timer, outcome, expired_in, throughputVars>>
directoryVars == <<body, servers, dir_result, batch, probed, best_server, best_latency,
                   selected, probing, results>>
latencyVars == <<probe, samples, ping_results, result>>
customVars == <<custom_url, custom_server>>
flavorVars == <<detected_backend_type, downloads_completed, chunk_param, phases_run>>
clientVars == <<attemptVars, directoryVars, latencyVars, customVars, flavorVars>>
vars == <<lockVars, coordVars, req, histVars, alert, issues, flow_result, clientVars>>

\* ------------------------------------------------------------------ values
NoData == [present |-> FALSE]
NoStore == [present |-> FALSE]

\* What an engine hands back on success (bytes are whole GB so that the
\* quotient bytes / 1_000_000_000 of the code is exact).
EngineResults ==
    { [bytes_received |-> 2 * BYTES_PER_GB, bytes_sent |-> 1 * BYTES_PER_GB],
      [bytes_received |-> 0, bytes_sent |-> 0] }

\* A request: where its task is (pc), the coordinator it belongs to (co), the
\* locals of _run_speed_test (attempt, last_error, parsed), whether it runs
\* inside the asyncio.timeout block (timed), and as history the engine calls
\* and backoff sleeps it has made and, once ended, what its caller got (kind),
\* through which exit (via) and after which engine event (cause). An ended
\* request keeps the number of calls of a successful run, and the GB it has
\* added to the two lifetime counters (added) when it was cut short, and
\* whether a successful run's write to the store went through (saved). A
\* request in flight remembers whether it came from a manual trigger that
\* lowered the failure counter (lowered), and still does when its run has
\* ended by exhausting the retries.
IdleReq == [pc |-> "idle", co |-> 0, attempt |-> 0, last_error |-> "None",
            timed |-> FALSE, calls |-> 0, sleeps |-> <<>>, parsed |-> NoData,
            added |-> 0, saved |-> FALSE, lowered |-> FALSE, kind |-> "none",
            via |-> "none", cause |-> "none"]

\* The coordinator whose failure streak the history variable follows: the
\* first configured entry.
Observed == CHOOSE c \in Coordinators : \A d \in Coordinators : c <= d

RECURSIVE Pow2(_)
Pow2(n) == IF n = 0 THEN 1 ELSE 2 * Pow2(n - 1)

RECURSIVE Without(_, _)
Without(s, x) ==
    IF s = <<>> THEN <<>>
    ELSE IF Head(s) = x THEN Without(Tail(s), x)
    ELSE <<Head(s)>> \o Without(Tail(s), x)

\* ------------------------------------------------------- exception classes
\* exceptions.py, plus the two library classes the coordinator catches by name
\* (asyncio.TimeoutError, aiohttp.ClientError) and the built-in data errors.
Parent(exc) ==
    CASE exc = "ServerNotFoundError"   -> "LibreSpeedError"
      [] exc = "NetworkError"          -> "LibreSpeedError"
      [] exc = "SpeedTestError"        -> "LibreSpeedError"
      [] exc = "SpeedTestTimeoutError" -> "SpeedTestError"
      [] exc = "CLIError"              -> "LibreSpeedError"
      [] exc = "CLINotFoundError"      -> "CLIError"
      [] exc = "CLIExecutionError"     -> "CLIError"
      [] exc = "CLIOutputError"        -> "CLIError"
      [] OTHER                         -> "Exception"

RECURSIVE IsA(_, _)
IsA(exc, base) ==
    IF exc = base THEN TRUE
    ELSE IF exc = "Exception" THEN FALSE
    ELSE IsA(Parent(exc), base)

\* ----------------------------------------------------------------- engines
\* What can happen inside one engine invocation, per engine.
NativeEvents == {"ok", "timeout", "client_error", "data_error", "server_not_found"}
CLIEvents == {"ok", "timeout", "bad_json", "no_results", "nonzero_exit", "os_error",
              "binary_missing", "invalid_argument"}
\* A client object whose run_speed_test raises the library exceptions
\* themselves (the simulated engine of the retry scenario).
SimulatedEvents == {"ok", "timeout", "client_error"}

\* LibreSpeedClient.run_speed_test: the exception that leaves it ("None": a result).
ClientRaises(ev) ==
    CASE ev = "ok"               -> "None"
      [] ev = "timeout"          -> "NetworkError"
      [] ev = "client_error"     -> "NetworkError"
      [] ev = "data_error"       -> "SpeedTestError"
      [] ev = "server_not_found" -> "ServerNotFoundError"

\* LibreSpeedCLI.run_speed_test: the exception that leaves it.
CLIRaises(ev) ==
    CASE ev = "ok"               -> "None"
      [] ev = "binary_missing"   -> "CLINotFoundError"
      [] ev = "invalid_argument" -> "ValueError"
      [] ev = "timeout"          -> "SpeedTestTimeoutError"
      [] ev = "bad_json"         -> "CLIOutputError"
      [] ev = "no_results"       -> "CLIOutputError"
      [] ev = "nonzero_exit"     -> "CLIExecutionError"
      [] ev = "os_error"         -> "CLIExecutionError"

SimulatedRaises(ev) ==
    CASE ev = "ok"           -> "None"
      [] ev = "timeout"      -> "TimeoutError"
      [] ev = "client_error" -> "ClientError"

ClientKinds == {"LibreSpeedClient", "LibreSpeedCLI", "Simulated"}

EngineEvents(k) ==
    CASE k = "LibreSpeedClient" -> NativeEvents
      [] k = "LibreSpeedCLI"    -> CLIEvents
      [] k = "Simulated"        -> SimulatedEvents

EngineRaises(k, ev) ==
    CASE k = "LibreSpeedClient" -> ClientRaises(ev)
      [] k = "LibreSpeedCLI"    -> CLIRaises(ev)
      [] k = "Simulated"        -> SimulatedRaises(ev)

\* ------------------------------------------------ the coordinator's handlers
\* The attempt loop without its clause for the built-in data errors.
HandlerWithoutDataErrors(exc) ==
    IF IsA(exc, "TimeoutError") THEN "retry_timeout"
    ELSE IF IsA(exc, "ClientError") THEN "retry_network"
    ELSE IF \/ IsA(exc, "SpeedTestError")
            \/ IsA(exc, "NetworkError")
            \/ IsA(exc, "CLIError") THEN "known_error"
    ELSE "escape"

\* The except clauses of the attempt loop, in the order Python tries them.
Handler(exc) ==
    IF IsA(exc, "TimeoutError") THEN "retry_timeout"
    ELSE IF IsA(exc, "ClientError") THEN "retry_network"
    ELSE IF \/ IsA(exc, "SpeedTestError")
            \/ IsA(exc, "NetworkError")
            \/ IsA(exc, "CLIError") THEN "known_error"
    ELSE IF exc \in {"ValueError", "TypeError", "KeyError", "AttributeError"}
         THEN "data_error"
    ELSE "escape"

Retryable(exc) == Handler(exc) \in {"retry_timeout", "retry_network"}

\* An off-by-one in the retry guard: one attempt too many.
MoreAttemptsOffByOne(attempt) == attempt < MAX_RETRIES

\* if attempt < MAX_RETRIES - 1: sleep and continue
MoreAttempts(attempt) == attempt < MAX_RETRIES - 1

\* delay = RETRY_DELAY_BASE * (2 ** attempt)
BackoffDelay(attempt) == RETRY_DELAY_BASE * Pow2(attempt)

\* An accumulation that forgets the cap.
AccumulateUncapped(lifetime, bytes) == lifetime + (bytes \div BYTES_PER_GB)

\* An accumulation that adds the bytes without converting them to GB.
AccumulateBytes(lifetime, bytes) == Min(lifetime + bytes, MAX_LIFETIME_GB)

\* min(self.lifetime_x + bytes / 1_000_000_000, MAX_LIFETIME_GB)
Accumulate(lifetime, bytes) == Min(lifetime + (bytes \div BYTES_PER_GB), MAX_LIFETIME_GB)

\* _parse_result followed by the two lifetime fields added before the return.
ParsedResult(r, dl, ul) ==
    [present |-> TRUE, bytes_received |-> r.bytes_received, bytes_sent |-> r.bytes_sent,
     lifetime_download |-> dl, lifetime_upload |-> ul]

\* save_data of _async_save_lifetime_data: the counters and a copy of self.data.
SaveData(c) ==
    [present |-> TRUE, lifetime_download |-> lifetime_download[c],
     lifetime_upload |-> lifetime_upload[c], last_test_data |-> data[c]]

\* The repair issues _run_speed_test creates or deletes.  The entries
\* modelled select their server automatically (self.custom_server is None),
\* so "custom_server_unreachable" is deleted but never created.
IssueIds == {"repeated_test_failures", "circuit_breaker_open", "custom_server_unreachable"}

\* ir.async_create_issue(hass, DOMAIN, id) by coordinator c; "none" creates
\* nothing.
CreateIssue(registry, id, c) ==
    IF id = "none" THEN registry ELSE [registry EXCEPT ![id] = @ \cup {c}]

\* The ir.async_delete_issue calls that follow the reset of the counter.
DeletedOnSuccess == {"custom_server_unreachable", "repeated_test_failures"}

\* ir.async_delete_issue(hass, DOMAIN, id) for every id of ids.
DeleteIssues(registry, ids) ==
    [id \in IssueIds |-> IF id \in ids THEN {} ELSE registry[id]]

\* An alert rule that fires at and above the open threshold.
IssueAtOrAbove(failures) ==
    IF failures = CIRCUIT_BREAKER_WARNING_THRESHOLD THEN "repeated_test_failures"
    ELSE IF failures >= CIRCUIT_BREAKER_OPEN_THRESHOLD THEN "circuit_breaker_open"
    ELSE "none"

\* The repair issue created after the counter was incremented to `failures`.
IssueAt(failures) ==
    IF failures = CIRCUIT_BREAKER_WARNING_THRESHOLD THEN "repeated_test_failures"
    ELSE IF failures = CIRCUIT_BREAKER_OPEN_THRESHOLD THEN "circuit_breaker_open"
    ELSE "none"

\* A breaker that opens one failure late.
CircuitOpenAbove(failures) == failures > CIRCUIT_BREAKER_OPEN_THRESHOLD

\* if self._consecutive_failures >= CIRCUIT_BREAKER_OPEN_THRESHOLD
CircuitOpen(failures) == failures >= CIRCUIT_BREAKER_OPEN_THRESHOLD

\* -------------------------------------------------------------------- Init
\* Persisted records a previous run of the program may have left behind:
\* nothing, or counters one GB short of the cap with the result saved then.
InitialStores ==
    { NoStore,
      [present |-> TRUE, lifetime_download |-> MAX_LIFETIME_GB - 1,
       lifetime_upload |-> MAX_LIFETIME_GB - 1,
       last_test_data |-> ParsedResult([bytes_received |-> 2 * BYTES_PER_GB,
                                        bytes_sent |-> 1 * BYTES_PER_GB],
                                       MAX_LIFETIME_GB - 3, MAX_LIFETIME_GB - 2)] }

\* The engines the configured entries were set up with: the first entry any
\* of the three, the others the native client.
Configurations ==
    { [c \in Coordinators |-> IF c = Observed THEN k ELSE "LibreSpeedClient"] :
          k \in ClientKinds }

\* LibreSpeedDataUpdateCoordinator.__init__ for every configured entry, and
\* the global lock of async_setup_entry.
CoordinatorInit ==
    /\ locked = FALSE
    /\ waiters = <<>>
    /\ woken = 0
    /\ client \in Configurations
    /\ loaded = [c \in Coordinators |-> FALSE]
    /\ is_running = [c \in Coordinators |-> FALSE]
    /\ is_waiting = [c \in Coordinators |-> FALSE]
    /\ test_lock = [c \in Coordinators |-> FALSE]
    /\ consecutive_failures = [c \in Coordinators |-> 0]
    /\ lifetime_download = [c \in Coordinators |-> 0]
    /\ lifetime_upload = [c \in Coordinators |-> 0]
    /\ data = [c \in Coordinators |-> NoData]
    /\ \E st \in InitialStores : store = [c \in Coordinators |-> st]
    /\ req = [t \in Tasks |-> IdleReq]
    /\ streak = 0
    /\ successes = 0
    /\ issued = 0
    /\ alert = "none"
    /\ issues = [id \in IssueIds |-> {}]
    /\ flow_result = "none"

\* A client object on which no speed test is in progress.
NotReturned == [returned |-> FALSE, speed |-> "none", bytes |-> 0]

AttemptIdle ==
    /\ phase = "idle"
    /\ at = "none"
    /\ pings = 0
    /\ ping_inflight = FALSE
    /\ created = [k \in Kinds |-> 0]
    /\ active_tasks = [k \in Kinds |-> [i \in Streams |-> "unborn"]]
    /\ cancel_sent = {}
    /\ clock = [k \in Kinds |-> "unset"]
    /\ timer = "off"
    /\ outcome = "none"
    /\ expired_in = "none"
    /\ total_bytes = [k \in Kinds |-> 0]
    /\ reported = [k \in Kinds |-> NotReturned]
    /\ last_chunk = [k \in Kinds |-> [i \in Streams |-> "none"]]
    /\ nreq = [k \in Kinds |-> [i \in Streams |-> 0]]
    /\ held = [k \in Kinds |-> 0]

\* LibreSpeedClient.__init__: the directory is empty and nothing was fetched.
DirectoryIdle ==
    /\ body = [type |-> "none"]
    /\ servers = <<>>
    /\ dir_result = "none"
    /\ batch = 0
    /\ probed = <<>>
    /\ best_server = 0
    /\ best_latency = INF
    /\ selected = 0
    /\ probing = {}
    /\ results = <<>>

\* No probe has been made and the result still holds its initial zeros.
LatencyIdle ==
    /\ probe = NoProbe
    /\ samples = <<>>
    /\ ping_results = <<>>
    /\ result = [ping |-> 0, jitter |-> 0, ready |-> FALSE]

\* No custom server has been looked at.
CustomIdle ==
    /\ custom_url = [shape |-> "none", rust |-> NoProbe, php |-> NoProbe]
    /\ custom_server = [raises |-> "none", built |-> FALSE]

\* LibreSpeedClient.__init__ sets no _detected_backend_type attribute.
FlavorIdle ==
    /\ detected_backend_type = "unset"
    /\ downloads_completed = 0
    /\ chunk_param = [i \in Streams |-> 0]
    /\ phases_run = 0

ClientIdle == AttemptIdle /\ DirectoryIdle /\ LatencyIdle /\ CustomIdle /\ FlavorIdle

Init == CoordinatorInit /\ ClientIdle

\* One installation of native clients with nothing stored.
OneInstallation ==
    /\ CoordinatorInit
    /\ client = [c \in Coordinators |-> "LibreSpeedClient"]
    /\ store = [c \in Coordinators |-> NoStore]

\* The client object of that installation before a speed test.
InitAttempt == OneInstallation /\ ClientIdle

\* ----------------------------------------------------------- the lock parts
\* An acquire that looks at the lock's flag alone and forgets the queue.
LockFreeIgnoringWaiters == ~locked

\* asyncio.Lock.acquire takes the lock at once only when it is free and no
\* live waiter is queued.
LockFree == ~locked /\ waiters = <<>>

\* A release that wakes nobody.
WakesNobody(q) == 0

\* asyncio.Lock.release: unlock and resolve the first waiter's future.
WokenAfterRelease(q) == IF q = <<>> THEN 0 ELSE Head(q)

\* An answer that forgets the last known-good data.
AlwaysFail(c) == "update_failed"

\* How a request that ends without leaving a result is reported to its
\* caller: the last known-good data when there is any, else UpdateFailed.
StaleOrFail(c) == IF data[c].present THEN "stale" ELSE "update_failed"

\* A request that has ended.
Ended(c, kind, via, cause) ==
    [IdleReq EXCEPT !.pc = "done", !.co = c, !.kind = kind, !.via = via,
                    !.cause = cause]

\* The first statements of _run_speed_test, up to the first engine call.
Running(r, c, timed) ==
    [r EXCEPT !.pc = "engine", !.co = c, !.timed = timed, !.attempt = 0,
              !.calls = 1, !.last_error = "None"]

\* ------------------------------------------------------------------ actions
\* async_setup_entry: await coordinator._async_load_lifetime_data()
Load(c) ==
    /\ UNCHANGED <<clientVars, flow_result, issues>>
    /\ /\ ~loaded[c]
       /\ loaded' = [loaded EXCEPT ![c] = TRUE]
       /\ IF store[c].present
          THEN /\ lifetime_download' = [lifetime_download EXCEPT ![c] = store[c].lifetime_download]
               /\ lifetime_upload' = [lifetime_upload EXCEPT ![c] = store[c].lifetime_upload]
               /\ data' = [data EXCEPT ![c] =
                      IF store[c].last_test_data.present
                      THEN ParsedResult(store[c].last_test_data, store[c].lifetime_download,
                                        store[c].lifetime_upload)
                      ELSE @]
          ELSE UNCHANGED <<lifetime_download, lifetime_upload, data>>
       /\ alert' = "none"
       /\ UNCHANGED <<lockVars, client, is_running, is_waiting, test_lock,
                      consecutive_failures, store, req, histVars>>

\* A manual trigger that resets the counter to 0 instead of lowering it.
ManualCounterReset(c, manual) ==
    IF manual /\ CircuitOpen(consecutive_failures[c]) THEN 0 ELSE consecutive_failures[c]

\* async_run_speedtest lowers an open counter to one below the threshold
\* before it refreshes; async_refresh leaves the counter alone.
ManualCounter(c, manual) ==
    IF manual /\ CircuitOpen(consecutive_failures[c])
    THEN CIRCUIT_BREAKER_OPEN_THRESHOLD - 1
    ELSE consecutive_failures[c]

\* A request arrives: async_refresh (scheduled or button, manual = FALSE) or
\* async_run_speedtest (manual = TRUE), run up to its first suspension point.
Request(t, c, manual, bounded) ==
    /\ UNCHANGED <<clientVars, flow_result, issues>>
    /\ LET cf == ManualCounter(c, manual)
           new == [IdleReq EXCEPT !.lowered = manual /\ CircuitOpen(consecutive_failures[c])]
       IN
       /\ req[t].pc = "idle"
       /\ loaded[c]
       /\ bounded => issued < MaxRequests
       /\ streak' = IF manual /\ c = Observed THEN 0 ELSE streak
       /\ consecutive_failures' = [consecutive_failures EXCEPT ![c] = cf]
       /\ alert' = "none"
       /\ UNCHANGED <<client, loaded, lifetime_download, lifetime_upload, data, store, successes>>
       /\ issued' = IF bounded THEN issued + 1 ELSE issued
       /\ IF CircuitOpen(cf)
          THEN \* circuit breaker open: skip the test
               /\ req' = [req EXCEPT ![t] = Ended(c, StaleOrFail(c), "breaker", "none")]
               /\ UNCHANGED <<lockVars, is_running, is_waiting, test_lock>>
          ELSE IF locked
          THEN \* another test is running: wait for the lock under the wait timeout
               /\ is_waiting' = [is_waiting EXCEPT ![c] = TRUE]
               /\ waiters' = Append(waiters, t)
               /\ req' = [req EXCEPT ![t] = [new EXCEPT !.pc = "waiting", !.co = c,
                                                        !.timed = TRUE]]
               /\ UNCHANGED <<locked, woken, is_running, test_lock>>
          ELSE IF LockFree
          THEN \* async with self._global_lock: return await self._run_speed_test()
               /\ ~test_lock[c]
               /\ locked' = TRUE
               /\ test_lock' = [test_lock EXCEPT ![c] = TRUE]
               /\ is_running' = [is_running EXCEPT ![c] = TRUE]
               /\ req' = [req EXCEPT ![t] = Running(new, c, FALSE)]
               /\ UNCHANGED <<waiters, woken, is_waiting>>
          ELSE \* the lock is free but promised to a queued waiter: queue behind it
               /\ waiters' = Append(waiters, t)
               /\ req' = [req EXCEPT ![t] = [new EXCEPT !.pc = "blocked", !.co = c]]
               /\ UNCHANGED <<locked, woken, is_running, is_waiting, test_lock>>

\* The woken waiter resumes inside acquire(), takes the lock and starts its test.
LockGranted(t) ==
    /\ UNCHANGED <<clientVars, flow_result, issues>>
    /\ LET c == req[t].co IN
       /\ woken = t
       /\ req[t].pc \in {"waiting", "blocked"}
       /\ ~test_lock[c]
       /\ locked' = TRUE
       /\ waiters' = Without(waiters, t)
       /\ woken' = 0
       /\ is_waiting' = IF req[t].pc = "waiting" THEN [is_waiting EXCEPT ![c] = FALSE]
                        ELSE is_waiting
       /\ test_lock' = [test_lock EXCEPT ![c] = TRUE]
       /\ is_running' = [is_running EXCEPT ![c] = TRUE]
       /\ req' = [req EXCEPT ![t] = Running(@, c, @.timed)]
       /\ alert' = "none"
       /\ UNCHANGED <<client, loaded, consecutive_failures, lifetime_download,
                      lifetime_upload, data, store, histVars>>

\* An exit of _run_speed_test without its finally clause: both locks are
\* released and the flag stays as it is.
ExitRunWithoutFinally(c) ==
    /\ UNCHANGED is_running
    /\ test_lock' = [test_lock EXCEPT ![c] = FALSE]
    /\ locked' = FALSE
    /\ woken' = WokenAfterRelease(waiters)
    /\ UNCHANGED waiters

\* The finally clause of _run_speed_test and the exits of the two
\* "async with" blocks around it: flags down, both locks released.
ExitRun(c) ==
    /\ is_running' = [is_running EXCEPT ![c] = FALSE]
    /\ test_lock' = [test_lock EXCEPT ![c] = FALSE]
    /\ locked' = FALSE
    /\ woken' = WokenAfterRelease(waiters)
    /\ UNCHANGED waiters

StreakAfter(c, failed) ==
    IF c # Observed THEN streak
    ELSE IF failed THEN Min(streak + 1, CIRCUIT_BREAKER_OPEN_THRESHOLD)
    ELSE 0

\* client.run_speed_test returns a result: parse it, add its bytes to the
\* lifetime counters, then await the save.
EngineSucceeds(t, r) ==
    /\ UNCHANGED <<clientVars, flow_result, issues>>
    /\ LET c == req[t].co
           dl == Accumulate(lifetime_download[c], r.bytes_received)
           ul == Accumulate(lifetime_upload[c], r.bytes_sent)
       IN
       /\ req[t].pc = "engine"
       /\ successes < MaxSuccesses
       /\ EngineRaises(client[c], "ok") = "None"
       /\ lifetime_download' = [lifetime_download EXCEPT ![c] = dl]
       /\ lifetime_upload' = [lifetime_upload EXCEPT ![c] = ul]
       /\ req' = [req EXCEPT ![t] = [@ EXCEPT !.pc = "saving",
                                               !.parsed = ParsedResult(r, dl, ul),
                                               !.added = (dl - lifetime_download[c])
                                                           + (ul - lifetime_upload[c])]]
       /\ successes' = successes + 1
       /\ alert' = "none"
       /\ UNCHANGED <<lockVars, client, loaded, is_running, is_waiting, test_lock,
                      consecutive_failures, data, store, streak, issued>>

\* _async_save_lifetime_data returns (a failed write is logged and swallowed);
\* the attempt resets the failure counter and returns the parsed result,
\* which the caller stores as self.data.
SaveDone(t, written) ==
    /\ UNCHANGED <<clientVars, flow_result>>
    /\ LET c == req[t].co IN
       /\ req[t].pc = "saving"
       /\ store' = IF written THEN [store EXCEPT ![c] = SaveData(c)] ELSE store
       /\ consecutive_failures' = [consecutive_failures EXCEPT ![c] = 0]
       /\ issues' = DeleteIssues(issues, DeletedOnSuccess)
       /\ data' = [data EXCEPT ![c] = req[t].parsed]
       /\ ExitRun(c)
       /\ req' = [req EXCEPT ![t] = [Ended(c, "result", "success", "ok")
                                          EXCEPT !.calls = req[t].calls,
                                                 !.saved = written]]
       /\ streak' = StreakAfter(c, FALSE)
       /\ alert' = "none"
       /\ UNCHANGED <<client, loaded, is_waiting, lifetime_download, lifetime_upload,
                      successes, issued>>

\* client.run_speed_test raises: the except clauses of the attempt loop.
EngineFails(t, ev) ==
    /\ UNCHANGED <<clientVars, flow_result>>
    /\ LET c == req[t].co
           exc == EngineRaises(client[c], ev)
           h == Handler(exc)
           r == req[t]
       IN
       /\ r.pc = "engine"
       /\ ev \in EngineEvents(client[c])
       /\ exc # "None"
       /\ UNCHANGED <<client, loaded, is_waiting, lifetime_download, lifetime_upload,
                      data, store, successes, issued>>
       /\ IF Retryable(exc) /\ MoreAttempts(r.attempt)
          THEN \* await asyncio.sleep(delay); continue
               /\ req' = [req EXCEPT ![t] = [@ EXCEPT !.pc = "sleep", !.last_error = exc,
                                    !.sleeps = Append(@, BackoffDelay(r.attempt))]]
               /\ alert' = "none"
               /\ UNCHANGED <<lockVars, is_running, test_lock, consecutive_failures,
                              streak, issues>>
          ELSE /\ ExitRun(c)
               /\ streak' = StreakAfter(c, TRUE)
               /\ IF Retryable(exc)
                  THEN \* all retries failed
                       /\ consecutive_failures' =
                              [consecutive_failures EXCEPT ![c] = @ + 1]
                       /\ alert' = IssueAt(consecutive_failures[c] + 1)
                       /\ issues' = CreateIssue(issues, IssueAt(consecutive_failures[c] + 1), c)
                       /\ req' = [req EXCEPT ![t] =
                                      [Ended(c, "update_failed", "exhausted", ev)
                                           EXCEPT !.lowered = r.lowered]]
                  ELSE /\ UNCHANGED <<consecutive_failures, issues>>
                       /\ alert' = "none"
                       /\ req' = [req EXCEPT ![t] =
                                      Ended(c, IF h = "escape" THEN "escaped"
                                               ELSE "update_failed", h, ev)]

\* The backoff sleep ends: the loop's next iteration calls the engine again.
SleepDone(t) ==
    /\ UNCHANGED <<clientVars, flow_result, issues>>
    /\ /\ req[t].pc = "sleep"
       /\ req' = [req EXCEPT ![t] = [@ EXCEPT !.pc = "engine", !.attempt = @ + 1,
                                               !.calls = @ + 1]]
       /\ alert' = "none"
       /\ UNCHANGED <<lockVars, coordVars, histVars>>

\* A task is cancelled where it is suspended. In acquire() it leaves the
\* queue and, if the lock is free, passes the wake-up on; inside the test
\* the CancelledError runs the finally clause and releases both locks.
Unwind(t) ==
    /\ UNCHANGED <<clientVars, flow_result, issues>>
    /\ LET c == req[t].co IN
       IF req[t].pc \in {"waiting", "blocked"}
       THEN /\ waiters' = Without(waiters, t)
            /\ woken' = IF locked THEN woken ELSE WokenAfterRelease(Without(waiters, t))
            /\ UNCHANGED <<locked, is_running, test_lock, streak>>
       ELSE /\ ExitRun(c)
            /\ UNCHANGED streak

\* asyncio.timeout(GLOBAL_TEST_LOCK_TIMEOUT) expires: the task is cancelled
\* wherever it is inside the "async with asyncio.timeout" block, and the
\* except asyncio.TimeoutError clause answers with the last data.
WaitTimeout(t) ==
    /\ UNCHANGED <<clientVars, flow_result, issues>>
    /\ LET c == req[t].co IN
       /\ req[t].timed
       /\ req[t].pc \in {"waiting", "engine", "sleep", "saving"}
       /\ Unwind(t)
       /\ is_waiting' = [is_waiting EXCEPT ![c] = FALSE]
       /\ req' = [req EXCEPT ![t] = [Ended(c, StaleOrFail(c), "wait_timeout", "none")
                                          EXCEPT !.added = req[t].added]]
       /\ alert' = "none"
       /\ UNCHANGED <<client, loaded, consecutive_failures, lifetime_download,
                      lifetime_upload, data, store, successes, issued>>

\* The task running the request is cancelled from outside (shutdown, unload).
Cancel(t) ==
    /\ UNCHANGED <<clientVars, flow_result, issues>>
    /\ LET c == req[t].co IN
       /\ req[t].pc \in {"waiting", "blocked", "engine", "sleep", "saving"}
       /\ Unwind(t)
       /\ req' = [req EXCEPT ![t] = [Ended(c, "cancelled", "cancel", "none")
                                          EXCEPT !.added = req[t].added]]
       /\ alert' = "none"
       /\ UNCHANGED <<client, loaded, is_waiting, consecutive_failures, lifetime_download,
                      lifetime_upload, data, store, successes, issued>>

\* The caller has taken the outcome: the task is gone.
Return(t) ==
    /\ UNCHANGED <<clientVars, flow_result, issues>>
    /\ /\ req[t].pc = "done"
       /\ req' = [req EXCEPT ![t] = IdleReq]
       /\ alert' = "none"
       /\ UNCHANGED <<lockVars, coordVars, histVars>>

Next ==
    \/ \E c \in Coordinators : Load(c)
    \/ \E t \in Tasks, c \in Coordinators, manual \in BOOLEAN :
           Request(t, c, manual, TRUE)
    \/ \E t \in Tasks : LockGranted(t)
    \/ \E t \in Tasks, r \in EngineResults : EngineSucceeds(t, r)
    \/ \E t \in Tasks, written \in BOOLEAN : SaveDone(t, written)
    \/ \E t \in Tasks, ev \in NativeEvents \cup CLIEvents \cup SimulatedEvents :
           EngineFails(t, ev)
    \/ \E t \in Tasks : SleepDone(t)
    \/ \E t \in Tasks : WaitTimeout(t)
    \/ \E t \in Tasks : Cancel(t)
    \/ \E t \in Tasks : Return(t)

Spec == Init /\ [][Next]_vars

\* An outage: no engine invocation ever produces a result, and requests keep
\* coming without bound.
NextOutage ==
    \/ \E c \in Coordinators : Load(c)
    \/ \E t \in Tasks, c \in Coordinators, manual \in BOOLEAN :
           Request(t, c, manual, FALSE)
    \/ \E t \in Tasks : LockGranted(t)
    \/ \E t \in Tasks, ev \in NativeEvents \cup CLIEvents \cup SimulatedEvents :
           EngineFails(t, ev)
    \/ \E t \in Tasks : SleepDone(t)
    \/ \E t \in Tasks : WaitTimeout(t)
    \/ \E t \in Tasks : Cancel(t)
    \/ \E t \in Tasks : Return(t)

SpecOutage == Init /\ [][NextOutage]_vars

\* An outage that lasts until a breaker is about to open: an engine produces
\* a result only for a coordinator whose counter has reached the threshold
\* less one.
NextRecovery ==
    \/ \E c \in Coordinators : Load(c)
    \/ \E t \in Tasks, c \in Coordinators, manual \in BOOLEAN :
           Request(t, c, manual, FALSE)
    \/ \E t \in Tasks : LockGranted(t)
    \/ \E t \in Tasks, r \in EngineResults :
           /\ req[t].pc = "engine"
           /\ consecutive_failures[req[t].co] >= CIRCUIT_BREAKER_OPEN_THRESHOLD - 1
           /\ EngineSucceeds(t, r)
    \/ \E t \in Tasks, written \in BOOLEAN : SaveDone(t, written)
    \/ \E t \in Tasks, ev \in NativeEvents \cup CLIEvents \cup SimulatedEvents :
           EngineFails(t, ev)
    \/ \E t \in Tasks : SleepDone(t)
    \/ \E t \in Tasks : WaitTimeout(t)
    \/ \E t \in Tasks : Cancel(t)
    \/ \E t \in Tasks : Return(t)

\* The recovery runs start at installations that have nothing stored yet
\* and whose observed entry has an engine that lets TimeoutError and
\* aiohttp.ClientError through, the failures the attempt loop retries and
\* counts.
InitRecovery ==
    /\ Init
    /\ client[Observed] = "Simulated"
    /\ store = [c \in Coordinators |-> NoStore]

SpecRecovery == InitRecovery /\ [][NextRecovery]_vars

\* The engine invocation of task t ends, with a result or an exception.
EngineReturns(t) ==
    \/ \E r \in EngineResults : EngineSucceeds(t, r)
    \/ \E ev \in NativeEvents \cup CLIEvents \cup SimulatedEvents : EngineFails(t, ev)

\* The event loop runs every task that is ready: a woken waiter resumes, and
\* an engine invocation, a save and a backoff sleep come to an end.
Fairness ==
    \A t \in Tasks :
        /\ WF_vars(LockGranted(t))
        /\ WF_vars(EngineReturns(t))
        /\ WF_vars(\E written \in BOOLEAN : SaveDone(t, written))
        /\ WF_vars(SleepDone(t))

SpecLive == InitRecovery /\ [][Next]_vars /\ Fairness

\* ------------------------------------------- repair flows and manual triggers
\* What async_setup_entry leaves in hass.data[DOMAIN]: the global lock under
\* "test_lock".  The runtime data of an entry goes to entry.runtime_data.
HassDomainData == {[type |-> "Lock", coordinator |-> 0]}

\* The coordinators the loops over hass.data[DOMAIN].items() reach:
\* "if isinstance(entry_data, LibreSpeedRuntimeData)".
Found ==
    {d.coordinator : d \in {e \in HassDomainData : e.type = "LibreSpeedRuntimeData"}}

\* RepeatedFailuresRepairFlow.async_step_confirm with user input: the first
\* coordinator found with a counter at the warning threshold is reset and
\* both issues are deleted; otherwise nothing is reset.
ConfirmRepeatedFailuresRepair ==
    /\ issues["repeated_test_failures"] # {}
    /\ LET hit == {c \in Found : consecutive_failures[c] >= CIRCUIT_BREAKER_WARNING_THRESHOLD}
       IN  IF hit # {}
           THEN LET c == CHOOSE x \in hit : \A y \in hit : x <= y
                IN  /\ consecutive_failures' = [consecutive_failures EXCEPT ![c] = 0]
                    /\ issues' = DeleteIssues(issues, {"repeated_test_failures",
                                                       "circuit_breaker_open"})
                    /\ flow_result' = "Failure Counter Reset"
           ELSE /\ flow_result' = "Recovery Initiated"
                /\ UNCHANGED <<consecutive_failures, issues>>
    /\ alert' = "none"
    /\ UNCHANGED <<lockVars, client, loaded, is_running, is_waiting, test_lock,
                   lifetime_download, lifetime_upload, data, store, req, histVars,
                   clientVars>>

\* CircuitBreakerRepairFlow.async_step_confirm with user input: every
\* coordinator found with an open breaker is reset; the issues are deleted
\* when at least one was.
ConfirmCircuitBreakerRepair ==
    /\ issues["circuit_breaker_open"] # {}
    /\ LET hit == {c \in Found : consecutive_failures[c] >= CIRCUIT_BREAKER_OPEN_THRESHOLD}
       IN  /\ consecutive_failures' =
                  [c \in Coordinators |-> IF c \in hit THEN 0 ELSE consecutive_failures[c]]
           /\ IF hit # {}
              THEN /\ issues' = DeleteIssues(issues, {"circuit_breaker_open",
                                                      "repeated_test_failures"})
                   /\ flow_result' = "Circuit Breaker Reset"
              ELSE /\ flow_result' = "No Circuit Breakers Found"
                   /\ UNCHANGED issues
    /\ alert' = "none"
    /\ UNCHANGED <<lockVars, client, loaded, is_running, is_waiting, test_lock,
                   lifetime_download, lifetime_upload, data, store, req, histVars,
                   clientVars>>

\* LibreSpeedButton.async_press: ignored while this coordinator's test runs,
\* otherwise "await self.coordinator.async_refresh()".
ButtonPress(t, c) ==
    /\ ~is_running[c]
    /\ Request(t, c, FALSE, FALSE)

\* async_call_action_from_config for the device of entry c: the coordinator
\* found for the device runs async_run_speedtest; when none is found the
\* action raises InvalidDeviceAutomationConfig.
DeviceAction(t, c) ==
    IF c \in Found
    THEN Request(t, c, TRUE, FALSE)
    ELSE /\ req[t].pc = "idle"
         /\ loaded[c]
         /\ flow_result' = "InvalidDeviceAutomationConfig"
         /\ alert' = "none"
         /\ UNCHANGED <<lockVars, coordVars, req, histVars, issues, clientVars>>

\* The task that runs the requests when they come one after another.
SoleTask == CHOOSE t \in Tasks : \A u \in Tasks : t <= u

\* Requests that come one after another, with the user's triggers and the
\* repair flows.
NextRepair ==
    \/ \E c \in Coordinators : Load(c)
    \/ \E c \in Coordinators, manual \in BOOLEAN : Request(SoleTask, c, manual, FALSE)
    \/ \E c \in Coordinators : ButtonPress(SoleTask, c)
    \/ \E c \in Coordinators : DeviceAction(SoleTask, c)
    \/ \E r \in EngineResults : EngineSucceeds(SoleTask, r)
    \/ \E written \in BOOLEAN : SaveDone(SoleTask, written)
    \/ \E ev \in NativeEvents \cup CLIEvents \cup SimulatedEvents : EngineFails(SoleTask, ev)
    \/ SleepDone(SoleTask)
    \/ Return(SoleTask)
    \/ ConfirmRepeatedFailuresRepair
    \/ ConfirmCircuitBreakerRepair

SpecRepair == InitRecovery /\ [][NextRepair]_vars

\* ------------------------------------------- one attempt of the native engine
\* The part of LibreSpeedClient.run_speed_test inside
\* "async with async_timeout.timeout(timeout)": the ping loop, _test_download
\* and _test_upload, run by one task, and the worker tasks the two throughput
\* phases create.  A worker is "unborn" before create_task, "ready" until its
\* first step, in "request" while its chunk request is in flight, and "done".
\* The timer is "armed" inside the scope, "pending" once the deadline has
\* cancelled the task and the CancelledError is not yet delivered, "swallowed"
\* when that error was caught inside the scope, "raised" when it reached the
\* scope's exit (which turns it into TimeoutError), "off" otherwise.
Phases == {"latency", "download", "upload"}

\* How a chunk request ends: with bytes, with a status that is no success,
\* with the expiry of CHUNK_UPLOAD_TIMEOUT, or with an aiohttp.ClientError.
ChunkOutcomes == {"bytes", "status", "timeout", "client_error"}

\* MAX_CONCURRENT_DOWNLOADS / MAX_CONCURRENT_UPLOADS: the size of the
\* semaphore a phase creates.
Bound(k) == IF k = "download" THEN MAX_CONCURRENT_DOWNLOADS ELSE MAX_CONCURRENT_UPLOADS

\* _download_chunk / _upload_chunk: the bytes of the chunk, 0 for every
\* failure (each is caught and answered with "return 0").
ChunkBytes(o) == IF o = "bytes" THEN 1 ELSE 0

\* The step of a worker after a chunk request ended, and its first step:
\* "while (time.time() - start_time) < test_duration" decides alone whether
\* it issues the next request; neither branch of the loop body sleeps,
\* since no error of a chunk reaches the worker's except clause.
EndsOnFailure(o, running) ==
    IF running /\ o \in {"none", "bytes"} THEN "request" ELSE "done"

AfterChunk(o, running) == IF running THEN "request" ELSE "done"

\* "async with semaphore": the slot is given back when the block is left,
\* also by the CancelledError of a cancelled request.
KeptOnCancel(state) == 0

ReleasedOnCancel(state) == IF state = "request" THEN 1 ELSE 0

OtherStreams(k, i, state) == [active_tasks EXCEPT ![k][i] = state]

\* "for task in active_tasks: task.cancel()": a task that is done ignores it.
CancelAll(k) ==
    cancel_sent \cup {<<k, i>> : i \in {j \in 1..created[k] : active_tasks[k][j] # "done"}}

\* "await asyncio.gather(*active_tasks, return_exceptions=True)" returns when
\* every task of the phase is done.
GatheredAtOnce(k) == TRUE

Gathered(k) == \A i \in 1..created[k] : active_tasks[k][i] = "done"

\* run_speed_test enters the timeout scope and issues the first probe.
EnterTimeout ==
    /\ phase = "idle" /\ outcome = "none"
    /\ phase' = "latency"
    /\ at' = "probe"
    /\ ping_inflight' = TRUE
    /\ timer' = "armed"
    /\ UNCHANGED <<pings, created, active_tasks, cancel_sent, clock, outcome, expired_in>>
    /\ UNCHANGED <<lockVars, coordVars, req, histVars, alert, issues, flow_result, directoryVars, latencyVars,
                   customVars, flavorVars>>
    /\ UNCHANGED throughputVars

\* _test_latency returns (a latency, or inf after an error or PING_TIMEOUT);
\* the task goes on to "await asyncio.sleep(PING_INTERVAL)".
PingDone ==
    /\ phase = "latency" /\ at = "probe" /\ timer # "pending"
    /\ ping_inflight' = FALSE
    /\ at' = "pause"
    /\ UNCHANGED <<phase, pings, created, active_tasks, cancel_sent, clock, timer,
                   outcome, expired_in>>
    /\ UNCHANGED <<lockVars, coordVars, req, histVars, alert, issues, flow_result, directoryVars, latencyVars,
                   customVars, flavorVars>>
    /\ UNCHANGED throughputVars

\* The pause after a probe is over: the next probe is issued, or after
\* PING_COUNT probes _test_download begins: it takes start_time, creates the
\* first worker and sleeps STREAM_START_DELAY.
PauseDone ==
    /\ phase = "latency" /\ at = "pause" /\ timer # "pending"
    /\ pings' = pings + 1
    /\ IF pings + 1 < PING_COUNT
       THEN /\ at' = "probe"
            /\ ping_inflight' = TRUE
            /\ UNCHANGED <<phase, created, active_tasks, clock>>
       ELSE /\ phase' = "download"
            /\ at' = "start"
            /\ clock' = [clock EXCEPT !["download"] = "running"]
            /\ created' = [created EXCEPT !["download"] = 1]
            /\ active_tasks' = OtherStreams("download", 1, "ready")
            /\ UNCHANGED ping_inflight
    /\ UNCHANGED <<cancel_sent, timer, outcome, expired_in>>
    /\ UNCHANGED <<lockVars, coordVars, req, histVars, alert, issues, flow_result, directoryVars, latencyVars,
                   customVars, flavorVars>>
    /\ UNCHANGED throughputVars

\* The stream start loop: after each delay the next worker is created; after
\* the last one the task sleeps test_duration.
StreamDelayDone(k) ==
    /\ phase = k /\ at = "start" /\ timer # "pending"
    /\ created' = [created EXCEPT ![k] = @ + 1]
    /\ active_tasks' = OtherStreams(k, created[k] + 1, "ready")
    /\ at' = IF created[k] + 1 = NumStreams THEN "sleep" ELSE "start"
    /\ UNCHANGED <<phase, pings, ping_inflight, cancel_sent, clock, timer, outcome,
                   expired_in>>
    /\ UNCHANGED <<lockVars, coordVars, req, histVars, alert, issues, flow_result, directoryVars, latencyVars,
                   customVars, flavorVars>>
    /\ UNCHANGED throughputVars

\* time.time() passes start_time + test_duration.
ClockPasses(k) ==
    /\ clock[k] = "running"
    /\ clock' = [clock EXCEPT ![k] = "passed"]
    /\ UNCHANGED <<phase, at, pings, ping_inflight, created, active_tasks, cancel_sent,
                   timer, outcome, expired_in>>
    /\ UNCHANGED <<lockVars, coordVars, req, histVars, alert, issues, flow_result, directoryVars, latencyVars,
                   customVars, flavorVars>>
    /\ UNCHANGED throughputVars

\* do_download / do_upload: a worker's first step, and the step after a chunk
\* request has ended (with bytes or with 0: _download_chunk and _upload_chunk
\* catch every error but CancelledError).  While the phase clock runs the
\* worker issues the next request, otherwise its loop ends.
WorkerStep(k, i, o) ==
    /\ active_tasks[k][i] \in {"ready", "request"}
    /\ <<k, i>> \notin cancel_sent
    /\ (active_tasks[k][i] = "ready") = (o = "none")
    /\ total_bytes[k] + ChunkBytes(o) <= MaxChunks
    /\ LET next == AfterChunk(o, clock[k] = "running")
           freed == IF active_tasks[k][i] = "request" THEN 1 ELSE 0
           taken == IF next = "request" THEN 1 ELSE 0
       IN  /\ held[k] - freed < Bound(k)
           /\ active_tasks' = OtherStreams(k, i, next)
           /\ held' = [held EXCEPT ![k] = @ - freed + taken]
           /\ total_bytes' = [total_bytes EXCEPT ![k] = @ + ChunkBytes(o)]
           /\ last_chunk' = [last_chunk EXCEPT ![k][i] = IF next = "done" THEN "none" ELSE o]
           /\ nreq' = [nreq EXCEPT ![k][i] = IF next = "done" THEN 0 ELSE 1 - @]
    /\ UNCHANGED reported
    /\ UNCHANGED <<phase, at, pings, ping_inflight, created, cancel_sent, clock, timer,
                   outcome, expired_in>>
    /\ UNCHANGED <<lockVars, coordVars, req, histVars, alert, issues, flow_result, directoryVars, latencyVars,
                   customVars, flavorVars>>

\* task.cancel() reaches a worker: before its first step it never runs; in a
\* request the CancelledError leaves the chunk function and "break" ends the loop.
WorkerCancelled(k, i) ==
    /\ <<k, i>> \in cancel_sent
    /\ cancel_sent' = cancel_sent \ {<<k, i>>}
    /\ active_tasks' = OtherStreams(k, i, "done")
    /\ held' = [held EXCEPT ![k] = @ - ReleasedOnCancel(active_tasks[k][i])]
    /\ last_chunk' = [last_chunk EXCEPT ![k][i] = "none"]
    /\ nreq' = [nreq EXCEPT ![k][i] = 0]
    /\ UNCHANGED <<total_bytes, reported>>
    /\ UNCHANGED <<phase, at, pings, ping_inflight, created, clock, timer, outcome,
                   expired_in>>
    /\ UNCHANGED <<lockVars, coordVars, req, histVars, alert, issues, flow_result, directoryVars, latencyVars,
                   customVars, flavorVars>>

\* "await asyncio.sleep(test_duration)" is over; the finally block cancels
\* the workers and awaits them.
DurationSlept(k) ==
    /\ phase = k /\ at = "sleep" /\ timer # "pending"
    /\ clock[k] = "passed"
    /\ cancel_sent' = CancelAll(k)
    /\ at' = "cleanup"
    /\ UNCHANGED <<phase, pings, ping_inflight, created, active_tasks, clock, timer,
                   outcome, expired_in>>
    /\ UNCHANGED <<lockVars, coordVars, req, histVars, alert, issues, flow_result, directoryVars, latencyVars,
                   customVars, flavorVars>>
    /\ UNCHANGED throughputVars

\* The gather of the finally block returns and the phase function returns:
\* after the download _test_upload begins (it first awaits the executor that
\* makes the random payload); after the upload the timeout scope is left
\* without an exception and run_speed_test returns the result.
PhaseReturns(k) ==
    /\ phase = k /\ at = "cleanup" /\ timer # "pending"
    /\ Gathered(k)
    /\ reported' = [reported EXCEPT ![k] =
                        [returned |-> TRUE,
                         speed |-> IF total_bytes[k] > 0 THEN "positive" ELSE "zero",
                         bytes |-> total_bytes[k]]]
    /\ UNCHANGED <<total_bytes, last_chunk, nreq, held>>
    /\ IF k = "download"
       THEN /\ phase' = "upload"
            /\ at' = "urandom"
            /\ UNCHANGED <<timer, outcome>>
       ELSE /\ phase' = "ended"
            /\ at' = "none"
            /\ timer' = IF timer = "armed" THEN "off" ELSE timer
            /\ outcome' = "result"
    /\ UNCHANGED <<pings, ping_inflight, created, active_tasks, cancel_sent, clock,
                   expired_in>>
    /\ UNCHANGED <<lockVars, coordVars, req, histVars, alert, issues, flow_result, directoryVars, latencyVars,
                   customVars, flavorVars>>

\* The payload is ready: _test_upload takes start_time, creates the first
\* worker and sleeps STREAM_START_DELAY.
PayloadReady ==
    /\ phase = "upload" /\ at = "urandom" /\ timer # "pending"
    /\ at' = "start"
    /\ clock' = [clock EXCEPT !["upload"] = "running"]
    /\ created' = [created EXCEPT !["upload"] = 1]
    /\ active_tasks' = OtherStreams("upload", 1, "ready")
    /\ UNCHANGED <<phase, pings, ping_inflight, cancel_sent, timer, outcome, expired_in>>
    /\ UNCHANGED <<lockVars, coordVars, req, histVars, alert, issues, flow_result, directoryVars, latencyVars,
                   customVars, flavorVars>>
    /\ UNCHANGED throughputVars

\* The deadline of the timeout scope arrives: it cancels the task.
TimerExpires ==
    /\ timer = "armed" /\ phase \in Phases
    /\ timer' = "pending"
    /\ expired_in' = phase
    /\ UNCHANGED <<phase, at, pings, ping_inflight, created, active_tasks, cancel_sent,
                   clock, outcome>>
    /\ UNCHANGED <<lockVars, coordVars, req, histVars, alert, issues, flow_result, directoryVars, latencyVars,
                   customVars, flavorVars>>
    /\ UNCHANGED throughputVars

\* The CancelledError is thrown into the task at the await it is suspended
\* in.  At "await asyncio.sleep(test_duration)" it is caught ("except
\* asyncio.CancelledError: pass") and the phase goes on with its finally
\* block; anywhere else it leaves the scope, which raises TimeoutError, and
\* run_speed_test raises NetworkError.  Workers already created by a stream
\* start loop are then left running.
CancelDelivered ==
    /\ timer = "pending"
    /\ IF at = "sleep"
       THEN /\ timer' = "swallowed"
            /\ cancel_sent' = CancelAll(phase)
            /\ at' = "cleanup"
            /\ UNCHANGED <<phase, ping_inflight, outcome>>
       ELSE /\ timer' = "raised"
            /\ outcome' = "NetworkError"
            /\ phase' = "ended"
            /\ at' = "none"
            /\ ping_inflight' = FALSE
            /\ UNCHANGED cancel_sent
    /\ UNCHANGED <<pings, created, active_tasks, clock, expired_in>>
    /\ UNCHANGED <<lockVars, coordVars, req, histVars, alert, issues, flow_result, directoryVars, latencyVars,
                   customVars, flavorVars>>
    /\ UNCHANGED throughputVars

NextAttempt ==
    \/ EnterTimeout
    \/ PingDone
    \/ PauseDone
    \/ \E k \in Kinds : StreamDelayDone(k)
    \/ \E k \in Kinds : ClockPasses(k)
    \/ \E k \in Kinds, i \in Streams, o \in ChunkOutcomes \cup {"none"} : WorkerStep(k, i, o)
    \/ \E k \in Kinds, i \in Streams : WorkerCancelled(k, i)
    \/ \E k \in Kinds : DurationSlept(k)
    \/ \E k \in Kinds : PhaseReturns(k)
    \/ PayloadReady
    \/ TimerExpires
    \/ CancelDelivered

SpecAttempt == InitAttempt /\ [][NextAttempt]_vars

\* ------------------------------------------------- the server directory
\* LibreSpeedClient.get_servers and get_best_server.  A server descriptor is
\* kept as its "id" (idtype tells whether it is a number or a string, id its
\* rank among the values of that type) and src, the position of the entry of
\* the fetched list it was built from (0 for the built-in default).
DEFAULT_SERVERS == <<[idtype |-> "int", id |-> 1, src |-> 0]>>

\* An element of the fetched JSON list: something that is no object, or an
\* object with or without an "id" and with a "server" that is a string or null.
Entries ==
    {[isdict |-> FALSE, idtype |-> "absent", id |-> 0, url |-> "str"]}
    \cup [isdict : {TRUE}, idtype : {"absent"}, id : {0}, url : {"str", "null"}]
    \cup [isdict : {TRUE}, idtype : {"int", "str"}, id : 1..MaxId, url : {"str", "null"}]

RECURSIVE SeqsUpTo(_, _)
SeqsUpTo(S, n) ==
    IF n = 0 THEN {<<>>}
    ELSE LET shorter == SeqsUpTo(S, n - 1)
         IN  shorter \cup {Append(q, x) : q \in shorter, x \in S}

\* A well-formed directory of LongList servers without explicit ids.
LongBody ==
    [i \in 1..LongList |-> [isdict |-> TRUE, idtype |-> "absent", id |-> 0, url |-> "str"]]

\* What the GET of the server list can yield: an aiohttp.ClientError, the
\* expiry of SERVER_LIST_TIMEOUT, a status other than 200, a body that is no
\* JSON, and a JSON body that is null / a number / a boolean ("scalar"), an
\* object, a string ("text") or a list.
Bodies ==
    {[type |-> ty, entries |-> <<>>] :
        ty \in {"client_error", "timeout", "status", "bad_json", "scalar", "object", "text"}}
    \cup {[type |-> "list", entries |-> es] : es \in SeqsUpTo(Entries, MaxEntries) \cup {LongBody}}

RECURSIVE InsertById(_, _)
InsertById(sorted, x) ==
    IF sorted = <<>> THEN <<x>>
    ELSE IF Head(sorted).id <= x.id
         THEN <<Head(sorted)>> \o InsertById(Tail(sorted), x)
         ELSE <<x>> \o sorted

\* list.sort(key=lambda x: x["id"]): stable, ascending.
RECURSIVE SortById(_)
SortById(list) ==
    IF list = <<>> THEN <<>>
    ELSE InsertById(SortById(SubSeq(list, 1, Len(list) - 1)), list[Len(list)])

\* Comparing an int with a str raises TypeError, which a sort of two or more
\* descriptors with ids of both types runs into.
SortRaises(list) ==
    \E i, j \in 1..Len(list) : list[i].idtype = "int" /\ list[j].idtype = "str"

\* The loop over enumerate(data): entries that are no dict are skipped, a dict
\* whose "server" is null raises AttributeError at .rstrip, any other dict is
\* appended with its id, or idx + 1 when it has none.
RECURSIVE ParseEntries(_, _)
ParseEntries(entries, n) ==
    IF n = 0 THEN [raises |-> "none", list |-> <<>>]
    ELSE LET before == ParseEntries(entries, n - 1)
             e == entries[n]
         IN  IF before.raises # "none" \/ ~e.isdict THEN before
             ELSE IF e.url = "null" THEN [raises |-> "AttributeError", list |-> <<>>]
             ELSE [raises |-> "none",
                   list |-> Append(before.list,
                                   IF e.idtype = "absent"
                                   THEN [idtype |-> "int", id |-> n, src |-> n]
                                   ELSE [idtype |-> e.idtype, id |-> e.id, src |-> n])]

\* The try block of get_servers: what it raises past its except clauses
\* ("none" when nothing) and the list it has built.
FetchServers(b) ==
    IF b.type \in {"client_error", "timeout", "bad_json", "status"}
    THEN [raises |-> "none", list |-> <<>>]
    ELSE IF b.type = "scalar" THEN [raises |-> "TypeError", list |-> <<>>]
    ELSE IF b.type \in {"object", "text"} THEN [raises |-> "none", list |-> <<>>]
    ELSE LET parsed == ParseEntries(b.entries, Len(b.entries))
         IN  IF parsed.raises # "none" THEN parsed
             ELSE IF SortRaises(parsed.list) THEN [raises |-> "TypeError", list |-> <<>>]
             ELSE [raises |-> "none", list |-> SortById(parsed.list)]

\* "if not servers: servers = DEFAULT_SERVERS.copy()"
OrDefault(list) == IF list = <<>> THEN DEFAULT_SERVERS ELSE list

GetServers ==
    /\ dir_result = "none"
    /\ LET fetched == FetchServers(body)
       IN  IF fetched.raises # "none"
           THEN /\ dir_result' = fetched.raises
                /\ UNCHANGED servers
           ELSE /\ dir_result' = "returned"
                /\ servers' = OrDefault(fetched.list)
    /\ UNCHANGED <<body, batch, probed, best_server, best_latency, selected, probing,
                   results>>
    /\ UNCHANGED <<lockVars, coordVars, req, histVars, alert, issues, flow_result, attemptVars, latencyVars,
                   customVars, flavorVars>>

\* "if latency < best_latency"
BetterOrEqual(latency, best) == latency <= best

Better(latency, best) == latency < best

\* The loop over the results of one batch, in the order of the batch.
RECURSIVE Scan(_, _, _, _)
Scan(lat, from, to, best) ==
    IF from > to THEN best
    ELSE Scan(lat, from + 1, to,
              IF lat[from] # INF /\ Better(lat[from], best.latency)
              THEN [server |-> from, latency |-> lat[from]]
              ELSE best)

\* "tasks = [test_server(server) for server in batch]" and the start of
\* asyncio.gather: one _test_latency per server of the next CONCURRENCY
\* servers of the directory.
StartBatch ==
    /\ dir_result = "returned" /\ selected = 0
    /\ batch < Len(servers)
    /\ results = <<>>
    /\ LET last == Min(batch + CONCURRENCY, Len(servers))
       IN  /\ probing' = probing \cup (batch + 1)..last
           /\ results' = [i \in 1..(last - batch) |-> 0]
    /\ UNCHANGED <<body, servers, dir_result, batch, probed, best_server, best_latency,
                   selected>>
    /\ UNCHANGED <<lockVars, coordVars, req, histVars, alert, issues, flow_result, attemptVars, latencyVars,
                   customVars, flavorVars>>

\* _test_latency of the server at position j returns its latency (INF when
\* the server did not answer with 200).
ProbeReturns(j, latency) ==
    /\ j \in probing
    /\ probing' = probing \ {j}
    /\ results' = IF j - batch \in 1..Len(results)
                  THEN [results EXCEPT ![j - batch] = latency]
                  ELSE results
    /\ UNCHANGED <<body, servers, dir_result, batch, probed, best_server, best_latency,
                   selected>>
    /\ UNCHANGED <<lockVars, coordVars, req, histVars, alert, issues, flow_result, attemptVars, latencyVars,
                   customVars, flavorVars>>

\* A gather that hands over as soon as one of its tasks has returned.
FirstReturned == \E i \in 1..Len(results) : results[i] # 0

\* asyncio.gather(*tasks) returns when every task of the batch has returned.
AllReturned == \A i \in 1..Len(results) : results[i] # 0

\* The rest of one iteration of the batch loop of get_best_server: gather
\* hands over the results of the batch, which are scanned in its order.
ProbeBatch ==
    /\ dir_result = "returned" /\ selected = 0
    /\ results # <<>>
    /\ AllReturned
    /\ LET last == batch + Len(results)
           lat == [i \in (batch + 1)..last |->
                       IF results[i - batch] = 0 THEN INF ELSE results[i - batch]]
           best == Scan(lat, batch + 1, last,
                        [server |-> best_server, latency |-> best_latency])
       IN  /\ probed' = probed \o [i \in 1..(last - batch) |-> lat[batch + i]]
           /\ best_server' = best.server
           /\ best_latency' = best.latency
    /\ batch' = batch + CONCURRENCY
    /\ results' = <<>>
    /\ UNCHANGED <<body, servers, dir_result, selected, probing>>
    /\ UNCHANGED <<lockVars, coordVars, req, histVars, alert, issues, flow_result, attemptVars, latencyVars,
                   customVars, flavorVars>>

\* "return best_server or self.servers[0]"
ReturnBest ==
    /\ dir_result = "returned" /\ selected = 0
    /\ batch >= Len(servers)
    /\ selected' = IF best_server # 0 THEN best_server ELSE 1
    /\ UNCHANGED <<body, servers, dir_result, batch, probed, best_server, best_latency,
                   probing, results>>
    /\ UNCHANGED <<lockVars, coordVars, req, histVars, alert, issues, flow_result, attemptVars, latencyVars,
                   customVars, flavorVars>>

InitDirectory ==
    /\ CoordinatorInit /\ AttemptIdle /\ LatencyIdle /\ CustomIdle /\ FlavorIdle
    /\ body \in Bodies
    /\ servers = <<>>
    /\ dir_result = "none"
    /\ batch = 0
    /\ probed = <<>>
    /\ best_server = 0
    /\ best_latency = INF
    /\ selected = 0
    /\ probing = {}
    /\ results = <<>>

NextDirectory ==
    \/ GetServers
    \/ StartBatch
    \/ \E j \in 1..LongList, latency \in 1..INF : ProbeReturns(j, latency)
    \/ ProbeBatch
    \/ ReturnBest

SpecDirectory == InitDirectory /\ [][NextDirectory]_vars

\* ------------------------------------------------- the measured latencies
\* The values of the ping loop of run_speed_test and of _test_latency.
\* Latencies are whole milliseconds; result['ping'] and result['jitter'] are
\* kept in hundredths of a millisecond, the precision round(x, 2) leaves.

\* _test_latency: the time to the response when its status is HTTP_OK, else
\* float('inf') (another status, the ping timeout, a client error).
TestLatency(o) ==
    IF o.kind = "status" /\ o.status = HTTP_OK THEN o.rtt ELSE INF

\* "if latency != float('inf')": the sample goes into ping_results.
KeepsAll(latency) == TRUE

Keeps(latency) == latency # INF

RECURSIVE MinOf(_)
MinOf(list) ==
    IF Len(list) = 1 THEN list[1] ELSE Min(Head(list), MinOf(Tail(list)))

AbsDiff(a, b) == IF a >= b THEN a - b ELSE b - a

\* sum(abs(ping_results[i] - ping_results[i-1]) for i in range(1, len(ping_results)))
RECURSIVE SumAbsDiff(_)
SumAbsDiff(list) ==
    IF Len(list) <= 1 THEN 0
    ELSE AbsDiff(list[2], list[1]) + SumAbsDiff(Tail(list))

\* round(num / den, 2) in hundredths, for num already in hundredths: the
\* nearest whole number, the even one at a tie.
RoundHalfEven(num, den) ==
    LET q == num \div den
        twice == 2 * (num % den)
    IN  IF twice < den THEN q
        ELSE IF twice > den THEN q + 1
        ELSE IF q % 2 = 0 THEN q ELSE q + 1

\* One iteration of the ping loop: a probe and what is kept of it.
PingSample(o) ==
    /\ Len(samples) < PING_COUNT /\ ~result.ready
    /\ probe' = o
    /\ samples' = Append(samples, TestLatency(o))
    /\ ping_results' = IF Keeps(TestLatency(o))
                       THEN Append(ping_results, TestLatency(o))
                       ELSE ping_results
    /\ UNCHANGED result
    /\ UNCHANGED <<lockVars, coordVars, req, histVars, alert, issues, flow_result, attemptVars, directoryVars,
                   customVars, flavorVars>>

\* After the loop: ping and jitter are derived from ping_results, or keep
\* their initial 0.
PingSummary ==
    /\ Len(samples) = PING_COUNT /\ ~result.ready
    /\ result' =
           [ping |-> IF ping_results # <<>> THEN 100 * MinOf(ping_results) ELSE 0,
            jitter |-> IF Len(ping_results) > 1
                       THEN RoundHalfEven(100 * SumAbsDiff(ping_results),
                                          Len(ping_results) - 1)
                       ELSE 0,
            ready |-> TRUE]
    /\ UNCHANGED <<probe, samples, ping_results>>
    /\ UNCHANGED <<lockVars, coordVars, req, histVars, alert, issues, flow_result, attemptVars, directoryVars,
                   customVars, flavorVars>>

InitLatency == OneInstallation /\ ClientIdle

NextLatency ==
    \/ \E o \in ProbeOutcomes : PingSample(o)
    \/ PingSummary

SpecLatency == InitLatency /\ [][NextLatency]_vars

\* ------------------------------------------------------ the custom server
\* LibreSpeedClient._create_custom_server and _detect_backend_type.  The
\* configured URL is any non-empty string (the config flow checks nothing
\* else); it is kept by its shape:
\*   "origin"        https://example.com  or  https://example.com/
\*   "subpath"       https://example.com/speedtest
\*   "bare_origin"   example.com             (no scheme)
\*   "bare_subpath"  example.com/speedtest   (no scheme)
\*   "malformed"     http://[::1             (urlparse raises ValueError)
UrlShapes == {"origin", "subpath", "bare_origin", "bare_subpath", "malformed"}

HasScheme(shape) == shape \in {"origin", "subpath"}

\* urlparse(custom_server_url.rstrip('/')).path is non-empty and not "/":
\* without a scheme the whole string is the path.
HasBackendPath(shape) == shape \in {"subpath", "bare_origin", "bare_subpath"}

\* The URLs to configure and what their two test endpoints do: a URL without
\* scheme is refused by the session with InvalidURL, a ClientError, and a
\* malformed one is never requested.
CustomInputs ==
    {[shape |-> sh, rust |-> a, php |-> b] :
        sh \in {u \in UrlShapes : HasScheme(u)}, a \in ProbeOutcomes, b \in ProbeOutcomes}
    \cup {[shape |-> sh,
           rust |-> [kind |-> "client_error", status |-> 0, rtt |-> 0],
           php |-> [kind |-> "client_error", status |-> 0, rtt |-> 0]] :
              sh \in {u \in UrlShapes : ~HasScheme(u) /\ u # "malformed"}}
    \cup {[shape |-> "malformed", rust |-> NoProbe, php |-> NoProbe]}

\* "if response.status == HTTP_OK" of a test request.
AnswersOK(o) == o.kind = "status" /\ o.status = HTTP_OK

\* _detect_backend_type: the extension-less endpoint is asked first; the
\* .php endpoint is asked only after that failed, and whatever it answers
\* the result is then 'php'.
DetectBackendType(rust, php) ==
    IF AnswersOK(rust) THEN "rust"
    ELSE IF AnswersOK(php) THEN "php"
    ELSE "php"

\* The four server.update(...) tables of _create_custom_server.
EndpointPaths(backend_type, has_backend_path) ==
    IF backend_type = "rust"
    THEN IF has_backend_path
         THEN [dlURL |-> "garbage", ulURL |-> "empty", pingURL |-> "empty",
               getIpURL |-> "getIP"]
         ELSE [dlURL |-> "backend/garbage", ulURL |-> "backend/empty",
               pingURL |-> "backend/empty", getIpURL |-> "backend/getIP"]
    ELSE IF has_backend_path
         THEN [dlURL |-> "garbage.php", ulURL |-> "empty.php", pingURL |-> "empty.php",
               getIpURL |-> "getIP.php"]
         ELSE [dlURL |-> "backend/garbage.php", ulURL |-> "backend/empty.php",
               pingURL |-> "backend/empty.php", getIpURL |-> "backend/getIP.php"]

CreateCustomServer ==
    /\ custom_url.shape # "none"
    /\ ~custom_server.built /\ custom_server.raises = "none"
    /\ custom_server' =
           IF custom_url.shape = "malformed"
           THEN [raises |-> "ValueError", built |-> FALSE]
           ELSE LET backend_type == DetectBackendType(custom_url.rust, custom_url.php)
                IN  [raises |-> "none", built |-> TRUE, backend_type |-> backend_type,
                     paths |-> EndpointPaths(backend_type,
                                             HasBackendPath(custom_url.shape))]
    /\ UNCHANGED custom_url
    /\ UNCHANGED <<lockVars, coordVars, req, histVars, alert, issues, flow_result, attemptVars, directoryVars,
                   latencyVars, flavorVars>>

InitCustom ==
    /\ OneInstallation /\ AttemptIdle /\ DirectoryIdle /\ LatencyIdle /\ FlavorIdle
    /\ custom_url \in CustomInputs
    /\ custom_server = [raises |-> "none", built |-> FALSE]

NextCustom ==
    \/ CreateCustomServer

SpecCustom == InitCustom /\ [][NextCustom]_vars

\* ------------------------------------------- the backend flavor adaptation
\* The body of the loop of _test_download.do_download: the ckSize parameter
\* each worker puts on its request and what the worker learns from the size
\* of the answer.  The attribute _detected_backend_type belongs to the client
\* object and outlives the phase; downloads_completed is a local of the
\* phase.  The timing of the phase and the cancellation of its workers are
\* those of the attempt above.

\* bytes_received of one chunk: nothing, a small body, one of exactly the
\* threshold, and one above it.
ChunkSizes == {0, 1, RUST_BACKEND_THRESHOLD, RUST_BACKEND_THRESHOLD + 1}

\* chunk_param: the small request until the flavor is known and for 'rust',
\* the default for anything else.
ChunkParam(backend_type) ==
    IF backend_type = "unset" THEN DOWNLOAD_CHUNK_PARAM
    ELSE IF backend_type = "rust" THEN DOWNLOAD_CHUNK_PARAM
    ELSE DEFAULT_CHUNKS

\* A detection that looks at every chunk, whether or not the attribute is set.
DetectEveryChunk(backend_type, bytes_received, completed) ==
    IF bytes_received > RUST_BACKEND_THRESHOLD THEN "rust"
    ELSE IF completed > PHP_BACKEND_THRESHOLD THEN "php"
    ELSE backend_type

\* The detection after a chunk that brought bytes; completed is the counter
\* after its increment.
Detect(backend_type, bytes_received, completed) ==
    IF backend_type # "unset" THEN backend_type
    ELSE IF bytes_received > RUST_BACKEND_THRESHOLD THEN "rust"
    ELSE IF completed > PHP_BACKEND_THRESHOLD THEN "php"
    ELSE "unset"

\* _test_download is called: a new counter, and no worker of an earlier
\* phase is left with a request (the phase gathers them before it returns).
StartDownload ==
    /\ phases_run < MaxPhases
    /\ phases_run' = phases_run + 1
    /\ downloads_completed' = 0
    /\ chunk_param' = [i \in Streams |-> 0]
    /\ UNCHANGED detected_backend_type
    /\ UNCHANGED <<lockVars, coordVars, req, histVars, alert, issues, flow_result, attemptVars, directoryVars,
                   latencyVars, customVars>>

\* Worker i builds its URL and awaits _download_chunk.
DownloadRequest(i) ==
    /\ phases_run > 0
    /\ chunk_param[i] = 0
    /\ chunk_param' = [chunk_param EXCEPT ![i] = ChunkParam(detected_backend_type)]
    /\ UNCHANGED <<detected_backend_type, downloads_completed, phases_run>>
    /\ UNCHANGED <<lockVars, coordVars, req, histVars, alert, issues, flow_result, attemptVars, directoryVars,
                   latencyVars, customVars>>

\* _download_chunk returns bytes_received to worker i, which runs on to the
\* next await without a suspension in between.
DownloadChunkDone(i, bytes_received) ==
    /\ chunk_param[i] # 0
    /\ bytes_received > 0 => downloads_completed < MaxCompleted
    /\ chunk_param' = [chunk_param EXCEPT ![i] = 0]
    /\ IF bytes_received > 0
       THEN /\ downloads_completed' = downloads_completed + 1
            /\ detected_backend_type' =
                   Detect(detected_backend_type, bytes_received, downloads_completed + 1)
       ELSE UNCHANGED <<downloads_completed, detected_backend_type>>
    /\ UNCHANGED phases_run
    /\ UNCHANGED <<lockVars, coordVars, req, histVars, alert, issues, flow_result, attemptVars, directoryVars,
                   latencyVars, customVars>>

InitFlavor == OneInstallation /\ ClientIdle

NextFlavor ==
    \/ StartDownload
    \/ \E i \in Streams : DownloadRequest(i)
    \/ \E i \in Streams, bytes_received \in ChunkSizes : DownloadChunkDone(i, bytes_received)

SpecFlavor == InitFlavor /\ [][NextFlavor]_vars

TypeOK ==
    /\ locked \in BOOLEAN
    /\ woken \in Tasks \cup {0}
    /\ \A c \in Coordinators : consecutive_failures[c] \in 0..(CIRCUIT_BREAKER_OPEN_THRESHOLD + NumTasks)

\* ------------------------------------------------------------------- claims
\* A task is inside _run_speed_test.
InsideRun(t) == req[t].pc \in {"engine", "sleep", "saving"}

\* The errors the claims call domain-specific.
DomainError(exc) ==
    \/ IsA(exc, "SpeedTestError")
    \/ IsA(exc, "NetworkError")
    \/ IsA(exc, "CLIError")
    \/ exc \in {"ValueError", "TypeError", "KeyError", "AttributeError"}

\* C1: at most one coordinator instance has is_running set at any time, and
\* at most one task is inside _run_speed_test, whatever the interleaving of
\* the requests on the shared global lock.
C1_MutualExclusion ==
    /\ \A c, d \in Coordinators : is_running[c] /\ is_running[d] => c = d
    /\ \A t, u \in Tasks : InsideRun(t) /\ InsideRun(u) => t = u

\* C1's case: one instance runs its test while a request of another instance
\* queues for the global lock.
C1_Witness ==
    \E t, u \in Tasks :
        /\ InsideRun(t) /\ is_running[req[t].co]
        /\ req[u].pc \in {"waiting", "blocked"}
        /\ req[u].co # req[t].co

C3_TenFailuresOpenBreaker ==
    streak >= 10 => consecutive_failures[Observed] >= 10

\* C4: an attempt that fails with a timeout or a network error, as the
\* engine reports it, is retried: a run ends after such a failure only when
\* its attempts are exhausted.
C4_TimeoutAndNetworkRetried ==
    \A t \in Tasks :
        (req[t].pc = "done" /\ req[t].cause \in {"timeout", "client_error"})
            => req[t].via = "exhausted"

C6_DomainErrorEndsRun ==
    [][\A t \in Tasks :
          req[t].pc = "engine" =>
              /\ req'[t].pc = "sleep" => ~DomainError(req'[t].last_error)
              /\ (/\ req'[t].pc = "done"
                  /\ req'[t].cause # "none"
                  /\ DomainError(EngineRaises(client[req[t].co], req'[t].cause)))
                     => req'[t].kind = "update_failed"]_vars

\* C6's case: a run of the CLI engine has ended on a ValueError and a run of
\* the native engine on a NetworkError.
C6_Witness ==
    /\ \E t \in Tasks : /\ req[t].pc = "done"
                        /\ req[t].via = "data_error"
                        /\ req[t].kind = "update_failed"
    /\ \E u \in Tasks : /\ req[u].pc = "done"
                        /\ req[u].via = "known_error"
                        /\ req[u].cause = "client_error"

\* C7: the lifetime counters never decrease and never exceed MAX_LIFETIME_GB
\* (1,000,000), across loads from storage, successful runs and failed runs.
C7_LifetimeMonotoneAndCapped ==
    [][\A c \in Coordinators :
          /\ lifetime_download'[c] >= lifetime_download[c]
          /\ lifetime_upload'[c] >= lifetime_upload[c]
          /\ lifetime_download'[c] <= 1000000
          /\ lifetime_upload'[c] <= 1000000]_vars

\* C7's case: a result has been added to counters loaded one GB short of
\* the cap, and the cap has cut the sum.
C7_Witness ==
    \E c \in Coordinators :
        /\ successes > 0
        /\ store[c].present
        /\ lifetime_download[c] = MAX_LIFETIME_GB

\* C8: a request that ends otherwise than in a successful attempt (retries
\* exhausted, non-retryable error, wait timeout, open circuit, cancellation)
\* has added nothing to the lifetime counters.
C8_UnsuccessfulLeavesLifetime ==
    \A t \in Tasks :
        (req[t].pc = "done" /\ req[t].via # "success") => req[t].added = 0

\* C9: a successful attempt sets each lifetime counter to
\* min(previous value + bytes / 10^9, 1,000,000) and leaves the
\* consecutive-failure counter at 0, however many failed attempts the run
\* made before.
C9_SuccessResetsAndAccumulates ==
    [][\A t \in Tasks :
          LET c == req[t].co IN
          /\ (req[t].pc = "engine" /\ req'[t].pc = "saving") =>
                /\ lifetime_download'[c] =
                       Min(lifetime_download[c]
                               + (req'[t].parsed.bytes_received \div 1000000000), 1000000)
                /\ lifetime_upload'[c] =
                       Min(lifetime_upload[c]
                               + (req'[t].parsed.bytes_sent \div 1000000000), 1000000)
          /\ (req[t].pc = "saving" /\ req'[t].pc = "done" /\ req'[t].via = "success") =>
                /\ consecutive_failures'[c] = 0
                /\ lifetime_download'[c] = req[t].parsed.lifetime_download
                /\ lifetime_upload'[c] = req[t].parsed.lifetime_upload]_vars

\* C9's case: a run has succeeded after failed attempts, and its bytes are in
\* the counters.
C9_Witness ==
    \E t \in Tasks :
        /\ req[t].pc = "done" /\ req[t].via = "success" /\ req[t].calls > 1
        /\ consecutive_failures[req[t].co] = 0
        /\ lifetime_download[req[t].co] = 2
        /\ lifetime_upload[req[t].co] = 1

\* C10: the wait timeout ends only requests that are still waiting for the
\* global lock; a request that has acquired the lock and started its test is
\* not ended by it.
C10_WaitTimeoutBoundsOnlyTheWait ==
    [][\A t \in Tasks :
          (InsideRun(t) /\ req'[t].pc = "done") => req'[t].via # "wait_timeout"]_vars

\* Task t's request of coordinator c ends in this step, while still waiting
\* for the global lock, by the wait timeout.
TimesOutWaiting(t) ==
    req[t].pc = "waiting" /\ req'[t].pc = "done" /\ req'[t].via = "wait_timeout"

C13_PersistedRecordIsOfThisRun ==
    \A t \in Tasks :
        LET c == req[t].co IN
        (req[t].pc = "done" /\ req[t].via = "success" /\ req[t].saved) =>
            /\ store[c].present
            /\ store[c].lifetime_download = lifetime_download[c]
            /\ store[c].lifetime_upload = lifetime_upload[c]
            /\ store[c].last_test_data = data[c]

\* C14: every failing outcome of a request is UpdateFailed; no other
\* exception of the engine reaches the caller of _async_update_data.
C14_OnlyUpdateFailedEscapes ==
    \A t \in Tasks :
        req[t].pc = "done" =>
            req[t].kind \in {"result", "stale", "update_failed", "cancelled"}

\* C15: a request that is handled with the failure counter at 10 or more is
\* answered at once by the open breaker, with the last data if any and else
\* with UpdateFailed, and changes neither the counter nor is_running nor
\* is_waiting nor the global lock.
C15_OpenBreakerSkips ==
    [][\A t \in Tasks :
          LET c == req'[t].co IN
          (req[t].pc = "idle" /\ req'[t].pc # "idle"
               /\ consecutive_failures'[c] >= 10) =>
              /\ req'[t].pc = "done"
              /\ req'[t].via = "breaker"
              /\ req'[t].kind = (IF data[c].present THEN "stale" ELSE "update_failed")
              /\ consecutive_failures' = consecutive_failures
              /\ is_running' = is_running
              /\ is_waiting' = is_waiting
              /\ UNCHANGED lockVars]_vars

\* C15's case: with the breaker open, one request was answered with the
\* stored result while another task's test was under way.
C15_Witness ==
    \E t, u \in Tasks :
        /\ req[t].pc = "done" /\ req[t].via = "breaker" /\ req[t].kind = "stale"
        /\ consecutive_failures[req[t].co] >= 10
        /\ InsideRun(u) /\ locked

\* C17: the repeated-failures warning is created exactly in the steps in
\* which a counter becomes 5, and the circuit-open alert exactly in the
\* steps in which a counter becomes 10.
C17_AlertsExactlyAtThresholds ==
    [][/\ (alert' = "repeated_test_failures") <=>
              (\E c \in Coordinators : /\ consecutive_failures'[c] = 5
                                       /\ consecutive_failures[c] # 5)
       /\ (alert' = "circuit_breaker_open") <=>
              (\E c \in Coordinators : /\ consecutive_failures'[c] = 10
                                       /\ consecutive_failures[c] # 10)]_vars

\* C17's case: the tenth failure in a row of a streak that started from 0
\* has just created the circuit-open alert.
C17_Witness ==
    /\ alert = "circuit_breaker_open"
    /\ streak = 10
    /\ consecutive_failures[Observed] = 10

NoValidEntry(b) ==
    b.type # "list" \/ \A i \in 1..Len(b.entries) : ~b.entries[i].isdict

\* C19: get_servers never raises to its caller and never returns an empty
\* list; whenever the fetch yields no valid entry (connection error, timeout,
\* status other than 200, undecodable body, a JSON body that is not a list of
\* objects, an empty list) it returns exactly the single built-in default.
C19_GetServersNeverRaisesNorEmpty ==
    dir_result # "none" =>
        /\ dir_result = "returned"
        /\ servers # <<>>
        /\ NoValidEntry(body) => servers = DEFAULT_SERVERS

\* C20: get_best_server has probed every server of the directory and returns
\* one whose measured latency is finite and minimal among all probes, the
\* earliest in directory order when several share the minimum; when every
\* probe was unreachable it returns the first directory entry.
C20_BestServerMinimalFinite ==
    selected # 0 =>
        LET finite == {i \in 1..Len(probed) : probed[i] # INF}
        IN  /\ Len(probed) = Len(servers)
            /\ IF finite = {} THEN selected = 1
               ELSE /\ selected \in finite
                    /\ \A i \in finite :
                           \/ probed[selected] < probed[i]
                           \/ probed[selected] = probed[i] /\ selected <= i

\* C20's case: a directory probed in two batches, where the server returned
\* is of the first batch and a server of the second batch measured the same
\* finite latency.
C20_Witness ==
    /\ selected # 0 /\ Len(servers) > CONCURRENCY
    /\ selected <= CONCURRENCY /\ probed[selected] # INF
    /\ \E i \in (CONCURRENCY + 1)..Len(probed) : probed[i] = probed[selected]

\* C12 (as stated): once the overall timer has expired during a phase, no
\* later phase of the attempt is started and the attempt ends with the
\* timeout failure, also when the expiry arrives during the sleep of a
\* throughput phase.
C12_ExpiryEndsAttempt ==
    expired_in # "none" =>
        /\ phase \in {expired_in, "ended"}
        /\ phase = "ended" => outcome = "NetworkError"

InFlight(k) == \E i \in Streams : active_tasks[k][i] = "request"

\* C18: while the attempt is in one of its phases, only requests of that
\* phase are in flight: a download request is in flight only after all
\* PING_COUNT probes are over, an upload request only after every download
\* worker is done, and no probe is in flight outside the latency phase.
C18_PhasesStrictlyOrdered ==
    phase \in Phases =>
        /\ ping_inflight => phase = "latency"
        /\ InFlight("download") =>
               phase = "download" /\ pings = PING_COUNT /\ ~ping_inflight
        /\ InFlight("upload") =>
               /\ phase = "upload" /\ pings = PING_COUNT /\ ~ping_inflight
               /\ \A i \in Streams : active_tasks["download"][i] = "done"

\* C18's case: every upload stream has a request in flight after a download
\* phase whose workers had requests in flight when they were cancelled.
C18_Witness ==
    /\ phase = "upload"
    /\ \A i \in Streams : active_tasks["upload"][i] = "request"
    /\ clock["download"] = "running"

\* C25: every request that is blocked on the global lock has its instance
\* marked as waiting and acquires under the wait timeout, also a request that
\* found the lock unlocked at its locked() check while the lock was already
\* promised to a queued requester.
C25_EveryBlockedRequestIsTimed ==
    \A t \in Tasks :
        req[t].pc \in {"waiting", "blocked"} =>
            req[t].timed /\ is_waiting[req[t].co]

\* C26: an instance is never waiting and running at once, whatever requests
\* overlap on it.
C26_NeverWaitingAndRunning ==
    \A c \in Coordinators : ~(is_waiting[c] /\ is_running[c])

\* The finite ones among the samples taken, in the order taken.
FiniteSamples == SelectSeq(samples, LAMBDA x : x # INF)

\* C21 (as stated): of the 10 samples, k of them finite, the reported ping is
\* the least finite sample (0 when k = 0) and the reported jitter is exactly
\* the mean of |s[i] - s[i-1]| over consecutive finite samples when k >= 2,
\* and 0 when k <= 1.
C21_PingMinJitterMean ==
    result.ready =>
        LET k == Len(FiniteSamples)
        IN  /\ result.ping = IF k >= 1 THEN 100 * MinOf(FiniteSamples) ELSE 0
            /\ k <= 1 => result.jitter = 0
            /\ k >= 2 => result.jitter * (k - 1) = 100 * SumAbsDiff(FiniteSamples)

\* C21 amended: as above, but the reported jitter is that mean rounded to two
\* decimals: the hundredth of a millisecond nearest to the mean.
C21_PingMinJitterMeanRounded ==
    result.ready =>
        LET k == Len(FiniteSamples)
        IN  /\ result.ping = IF k >= 1 THEN 100 * MinOf(FiniteSamples) ELSE 0
            /\ k <= 1 => result.jitter = 0
            /\ k >= 2 =>
                   2 * AbsDiff(result.jitter * (k - 1), 100 * SumAbsDiff(FiniteSamples))
                       <= k - 1

\* C21's case: ten samples with unreachable ones among finite ones, whose
\* mean difference is no whole number of hundredths.
C21_Witness ==
    /\ result.ready
    /\ Len(FiniteSamples) >= 2 /\ Len(FiniteSamples) < PING_COUNT
    /\ samples[1] # INF /\ samples[2] = INF /\ samples[PING_COUNT] # INF
    /\ result.jitter * (Len(FiniteSamples) - 1) # 100 * SumAbsDiff(FiniteSamples)

\* C22 (as stated): a probe answered with any 2xx status yields a finite
\* latency; only other statuses, timeouts and connection errors yield the
\* unreachable sentinel.
C22_Any2xxIsReachable ==
    samples # <<>> =>
        ((samples[Len(samples)] # INF)
            <=> (probe.kind = "status" /\ probe.status \in 200..299))

\* The path of an endpoint as the claim composes it: name, with the
\* "backend/" prefix or not, with the ".php" suffix or not.
PathOf(name, prefixed, suffixed) ==
    CASE name = "garbage" /\ prefixed /\ suffixed -> "backend/garbage.php"
      [] name = "garbage" /\ prefixed /\ ~suffixed -> "backend/garbage"
      [] name = "garbage" /\ ~prefixed /\ suffixed -> "garbage.php"
      [] name = "garbage" /\ ~prefixed /\ ~suffixed -> "garbage"
      [] name = "empty" /\ prefixed /\ suffixed -> "backend/empty.php"
      [] name = "empty" /\ prefixed /\ ~suffixed -> "backend/empty"
      [] name = "empty" /\ ~prefixed /\ suffixed -> "empty.php"
      [] name = "empty" /\ ~prefixed /\ ~suffixed -> "empty"
      [] name = "getIP" /\ prefixed /\ suffixed -> "backend/getIP.php"
      [] name = "getIP" /\ prefixed /\ ~suffixed -> "backend/getIP"
      [] name = "getIP" /\ ~prefixed /\ suffixed -> "getIP.php"
      [] name = "getIP" /\ ~prefixed /\ ~suffixed -> "getIP"

\* The URL names a host and nothing below it.
BareOrigin(shape) == shape \in {"origin", "bare_origin"}

\* C23 (as stated): for a custom URL the adapter never raises; the flavor is
\* extension-less exactly when the extension-less ping succeeds and legacy
\* otherwise; the paths are garbage / empty / empty / getIP, with ".php" for
\* legacy and with "backend/" exactly when the URL is a bare origin.
C23_CustomServerIsFunctionOfProbes ==
    /\ custom_server.raises = "none"
    /\ custom_server.built =>
           LET legacy == ~AnswersOK(custom_url.rust)
               bare == BareOrigin(custom_url.shape)
           IN  /\ custom_server.backend_type = IF legacy THEN "php" ELSE "rust"
               /\ custom_server.paths =
                      [dlURL |-> PathOf("garbage", bare, legacy),
                       ulURL |-> PathOf("empty", bare, legacy),
                       pingURL |-> PathOf("empty", bare, legacy),
                       getIpURL |-> PathOf("getIP", bare, legacy)]

\* A worker task that can still issue or complete chunk requests.
Alive(k, i) == active_tasks[k][i] \in {"ready", "request"}

\* C24 (as stated): once the attempt has ended, for whatever reason, no
\* worker stream of it is still active, so none is when the coordinator
\* thereupon releases the global lock.
C24_NoActivityAfterAttempt ==
    phase = "ended" => \A k \in Kinds, i \in Streams : ~Alive(k, i)

\* C27: when a throughput phase has returned, every worker it started is
\* done and no cancellation is outstanding, its semaphore is free, the total
\* it returned is the final total, and the upload phase begins only after the
\* download phase has returned.
C27_PhaseReturnsAfterWorkers ==
    /\ \A k \in Kinds :
           reported[k].returned =>
               /\ \A i \in Streams : active_tasks[k][i] = "done" /\ <<k, i>> \notin cancel_sent
               /\ total_bytes[k] = reported[k].bytes
               /\ held[k] = 0
    /\ phase = "upload" => reported["download"].returned

\* C27's case: the download phase was cut short with requests counted and
\* returned its total, and upload requests are in flight.
C27_Witness ==
    /\ reported["download"].returned /\ reported["download"].bytes = MaxChunks
    /\ clock["download"] = "running"
    /\ \E i \in Streams : active_tasks["upload"][i] = "request"

Failures == ChunkOutcomes \ {"bytes"}

\* C28: a failed chunk request ends neither its worker nor the phase: a
\* worker leaves its loop only when the phase clock has passed or it was
\* cancelled, a request that failed adds nothing to the total, the phase
\* returns only after its deadline (or after the overall timer expired in
\* it), a phase without a counted chunk returns speed 0 and 0 bytes, and
\* the attempt fails only by the overall timer.
C28_FailedChunksAreAbsorbed ==
    [][/\ \A k \in Kinds, i \in Streams :
              /\ (active_tasks[k][i] = "request" /\ active_tasks'[k][i] = "done") =>
                     clock[k] = "passed" \/ <<k, i>> \in cancel_sent
              /\ (nreq'[k][i] # nreq[k][i] /\ last_chunk'[k][i] \in Failures) =>
                     total_bytes'[k] = total_bytes[k]
       /\ \A k \in Kinds :
              (~reported[k].returned /\ reported'[k].returned) =>
                  /\ clock[k] = "passed" \/ expired_in = k
                  /\ total_bytes[k] = 0 =>
                         reported'[k].speed = "zero" /\ reported'[k].bytes = 0
       /\ outcome' = "NetworkError" => timer' = "raised"]_vars

\* C28's case: the download clock still runs, nothing was counted, and every
\* worker is in a request it issued after a failed one, the three kinds of
\* failure among them.
C28_Witness ==
    /\ clock["download"] = "running" /\ total_bytes["download"] = 0
    /\ \A i \in Streams : active_tasks["download"][i] = "request"
    /\ {last_chunk["download"][i] : i \in Streams} = Failures

\* C29 (as stated): a worker whose chunk request failed by a network error or
\* a timeout does not issue its next request in the same step: a back-off
\* sleep lies between them.
C29_BackoffAfterFailure ==
    [][\A k \in Kinds, i \in Streams :
          (nreq'[k][i] # nreq[k][i] /\ last_chunk'[k][i] \in {"timeout", "client_error"}) =>
              active_tasks'[k][i] # "request"]_vars

\* C30: the chunk requests in flight in a phase never exceed the size of its
\* semaphore, and the slots taken are exactly those of the requests in
\* flight: each is given back when its request ends, however it ends.
C30_SemaphoreBoundsRequests ==
    \A k \in Kinds :
        LET inflight == Cardinality({i \in Streams : active_tasks[k][i] = "request"})
        IN  inflight <= Bound(k) /\ held[k] = inflight

\* C30's case: the upload semaphore is used up by three requests in flight,
\* after the download workers were cancelled while their clock still ran.
C30_Witness ==
    /\ held["upload"] = Bound("upload")
    /\ held["download"] = 0 /\ clock["download"] = "running"
    /\ total_bytes["download"] > 0

\* C31: the detected backend flavor is set at most once per client object:
\* once it is 'rust' or 'php' no step changes it, whichever worker completes
\* a chunk and in whichever later download phase of the same object.
C31_FlavorSetAtMostOnce ==
    [][detected_backend_type # "unset" =>
           detected_backend_type' = detected_backend_type]_vars

\* C31's case: in a later phase of a client whose flavor is set, a chunk
\* that would decide otherwise has completed.
C31_Witness ==
    /\ phases_run >= 2
    /\ downloads_completed > PHP_BACKEND_THRESHOLD
    /\ detected_backend_type = "rust"

\* C32: requests made while the flavor is unknown or 'rust' carry ckSize 20
\* and those made once it is 'php' carry 100; a chunk of more than 5,000,000
\* bytes completed while the flavor is unknown sets it to 'rust'; and the
\* flavor is no longer unknown once 2 chunks have completed in the phase.
C32_FlavorAdaptation ==
    [][/\ \A i \in Streams :
              (chunk_param[i] = 0 /\ chunk_param'[i] # 0) =>
                  chunk_param'[i] = IF detected_backend_type = "php" THEN 100 ELSE 20
       /\ detected_backend_type' = "unset" => downloads_completed' < 2]_vars

\* C33: server selection probes the directory in consecutive batches of at
\* most 6 servers in directory order: the probes in flight are at most 6,
\* they all belong to the batch being gathered, and a batch is started only
\* when no probe is in flight.
C33_BatchesOfSix ==
    [][/\ Cardinality(probing) <= 6
       /\ probing \subseteq (batch + 1)..(batch + Len(results))
       /\ Len(results) <= 6
       /\ (results = <<>> /\ results' # <<>>) =>
              /\ probing = {}
              /\ probing' = (batch + 1)..Min(batch + 6, Len(servers))]_vars

\* C33's case: the probes of the second batch are in flight after the six
\* of the first batch have returned.
C33_Witness ==
    /\ batch = CONCURRENCY /\ Len(probed) = CONCURRENCY
    /\ probing # {}

\* C34: is_running of a coordinator is true only while a request of that
\* coordinator is inside _run_speed_test, holding the global lock; it is
\* false once the run has been left, by whichever path; so whenever the
\* global lock is free no coordinator has is_running true.
C34_RunningOnlyUnderLock ==
    /\ \A c \in Coordinators :
           is_running[c] => /\ locked
                            /\ \E t \in Tasks : req[t].co = c /\ InsideRun(t)
    /\ ~locked => \A c \in Coordinators : ~is_running[c]

\* C34's case: a run was left by an exception the attempt loop does not
\* handle, and the flag is down with the lock free.
C34_Witness ==
    \E t \in Tasks :
        /\ req[t].pc = "done" /\ req[t].kind = "escaped"
        /\ ~is_running[req[t].co] /\ ~locked

\* C35: when every engine invocation terminates, every request that has
\* started comes to an end, the global lock once taken is released again, and
\* a request waiting for the lock either gets it or ends (by the wait
\* timeout or a cancellation); the global lock and the per-coordinator
\* _test_lock never block each other.
C35_RequestsComplete ==
    /\ \A t \in Tasks : (req[t].pc \notin {"idle", "done"}) ~> (req[t].pc = "done")
    /\ locked ~> ~locked
    /\ \A t \in Tasks :
           (req[t].pc \in {"waiting", "blocked"}) ~> (InsideRun(t) \/ req[t].pc = "done")
    /\ [](\A c \in Coordinators : test_lock[c] => locked)

\* C35's case: a request of one coordinator waits for the lock while a
\* request of another coordinator runs its test.
C35_Witness ==
    \E t, u \in Tasks :
        /\ req[t].pc = "waiting" /\ InsideRun(u)
        /\ req[u].co # req[t].co

====
